---- MODULE Spec2Model ----
(***************************************************************************)
(* Model of the liveness-checking orchestrator of vpn_checker:             *)
(* checker.CheckAll (worker pool, jobs channel, mutex, wait group) and     *)
(* checker.CheckConfig (port reservation, engine start, readiness wait,    *)
(* HTTP probe, deferred engine stop), together with the part of the        *)
(* operating system they act on (local TCP ports, engine processes); of    *)
(* the command's main (readConfigs, buildAliveEntries); and of the URI     *)
(* parser (parser.ParseLine and the functions it calls), on strings that   *)
(* are sequences of one-character strings.                                 *)
(***************************************************************************)
EXTENDS Integers, Sequences, FiniteSets, TLC

\* ---------------------------------------------------------------- bounds
MaxN == 2            \* longest configuration list
MaxWorkers == 2      \* largest worker count passed to CheckAll
MaxPort == 2         \* local TCP ports the OS can hand out: 1..MaxPort
MaxLines == 3        \* longest input file, in lines

VARIABLES
    configs,     \* CheckAll argument: the configuration list
    workers,     \* CheckAll argument: the worker count (may be <= 0)
    onResultNil, \* CheckAll argument: TRUE when onResult == nil
    mainPc,      \* position of the goroutine that called CheckAll
    spawned,     \* loop variable i of the spawn loop
    sent,        \* loop variable i of the enqueue loop
    jobs,        \* contents of the buffered channel jobs
    closed,      \* TRUE once close(jobs) ran
    wg,          \* the WaitGroup counter
    mu,          \* the mutex: 0 when free, else the worker holding it
    results,     \* the shared results slice
    done,        \* the shared completed counter
    retval,      \* what CheckAll returned to its caller (<<>> before)
    wpc,         \* position of each worker goroutine
    widx,        \* each worker's loop variable idx (0-based)
    r,           \* each worker's Result under construction / returned
    socksPort,   \* each worker's local variable socksPort
    peer,        \* which check's engine a worker's last probe reached
    trace,       \* the steps of CheckConfig a worker's current check performed
    engine,      \* state of the engine process of every check
    bound,       \* OS: for every port, the check whose engine listens (0: none)
    ncalls,      \* number of onResult invocations so far
    called,      \* per index: times onResult was invoked with its Result
    taken,       \* per index: times it was received and CheckConfig entered
    written,     \* per index: times its result slot was assigned
    lines,       \* main: the lines of the input file
    scanned,     \* readConfigs: number of lines the scanner has delivered
    entries,     \* readConfigs: the ConfigEntry list built so far / returned
    progPc,      \* position of main around readConfigs and CheckAll
    aliveEntries,\* main: what buildAliveEntries returned (<<>> before)
    served,      \* main: TRUE once buildAliveEntries was called
    pin,         \* the argument of the parser function applied
    pout         \* its result

vars == <<configs, workers, onResultNil, mainPc, spawned, sent, jobs, closed,
          wg, mu, results, done, retval, wpc, widx, r, socksPort, peer,
          trace, engine, bound, ncalls, called, taken, written, lines,
          scanned, entries, progPc, aliveEntries, served, pin, pout>>

mainVars == <<mainPc, spawned, sent, closed, retval>>
\* What CheckAll and CheckConfig never touch: the state of main and of the
\* parser functions.
readVars == <<lines, scanned, entries, progPc>>
parseVars == <<pin, pout>>
progVars == <<readVars, aliveEntries, served, parseVars>>
inputVars == <<configs, workers, onResultNil, progVars>>
checkVars == <<socksPort, peer, trace, engine, bound>>
sharedVars == <<mu, results, done, ncalls, called>>
ghostVars == <<taken, written>>

\* ---------------------------------------------------------------- strings
\* A Go string is a sequence of one-character strings; only printable ASCII
\* and the tab occur in the inputs.

\* The grave accent (code 96), which a string of this notation cannot
\* hold; no input contains it.
Grave == "\\g"

\* The printable ASCII characters in code order: Ascii[i] has code 31 + i.
Ascii ==
    <<" ", "!", "\"", "#", "$", "%", "&", "'", "(", ")", "*", "+", ",",
      "-", ".", "/", "0", "1", "2", "3", "4", "5", "6", "7", "8", "9", ":",
      ";", "<", "=", ">", "?", "@", "A", "B", "C", "D", "E", "F", "G", "H",
      "I", "J", "K", "L", "M", "N", "O", "P", "Q", "R", "S", "T", "U", "V",
      "W", "X", "Y", "Z", "[", "\\", "]", "^", "_", Grave, "a", "b", "c",
      "d", "e", "f", "g", "h", "i", "j", "k", "l", "m", "n", "o", "p", "q",
      "r", "s", "t", "u", "v", "w", "x", "y", "z", "{", "|", "}", "~">>

\* A byte outside the printable range, as one opaque character.
Unprintable == "\\x"

Ord(c) == 31 + (CHOOSE i \in 1..Len(Ascii) : Ascii[i] = c)
Chr(b) == IF b >= 32 /\ b <= 31 + Len(Ascii) THEN Ascii[b - 31] ELSE Unprintable

Digits == <<"0", "1", "2", "3", "4", "5", "6", "7", "8", "9">>
IsDigit(c) == \E i \in 1..Len(Digits) : Digits[i] = c
DigitVal(c) == (CHOOSE i \in 1..Len(Digits) : Digits[i] = c) - 1
AllDigits(s) == \A i \in 1..Len(s) : IsDigit(s[i])

\* Value of a digit string, most significant digit first.
RECURSIVE DecVal(_)
DecVal(s) ==
    IF s = <<>> THEN 0
    ELSE 10 * DecVal(SubSeq(s, 1, Len(s) - 1)) + DigitVal(s[Len(s)])

\* strconv.Atoi: an optional sign followed by at least one digit (values
\* that overflow an int are beyond the inputs considered).
Atoi(s) ==
    LET signed == s # <<>> /\ s[1] \in {"+", "-"}
        body == IF signed THEN Tail(s) ELSE s
    IN  IF body # <<>> /\ AllDigits(body)
        THEN [ok |-> TRUE, n |-> IF signed /\ s[1] = "-" THEN 0 - DecVal(body) ELSE DecVal(body)]
        ELSE [ok |-> FALSE, n |-> 0]

\* The %d verb of fmt.Sprintf.
RECURSIVE Itoa(_)
Itoa(n) ==
    IF n < 0 THEN <<"-">> \o Itoa(0 - n)
    ELSE IF n < 10 THEN <<Digits[n + 1]>>
    ELSE Itoa(n \div 10) \o <<Digits[(n % 10) + 1]>>

\* strings.HasPrefix
HasPrefix(s, p) == Len(s) >= Len(p) /\ SubSeq(s, 1, Len(p)) = p

\* strings.Index / strings.LastIndex for a one-character substring,
\* 1-based, 0 when absent.
IndexOf(s, c) ==
    IF \E i \in 1..Len(s) : s[i] = c
    THEN CHOOSE i \in 1..Len(s) : s[i] = c /\ \A j \in 1..(i - 1) : s[j] # c
    ELSE 0
LastIndexOf(s, c) ==
    IF \E i \in 1..Len(s) : s[i] = c
    THEN CHOOSE i \in 1..Len(s) : s[i] = c /\ \A j \in (i + 1)..Len(s) : s[j] # c
    ELSE 0

\* The text before / after position i (i itself left out).
Before(s, i) == SubSeq(s, 1, i - 1)
After(s, i) == SubSeq(s, i + 1, Len(s))

\* strings.TrimSpace
IsSpace(c) == c \in {" ", "\t"}
RECURSIVE TrimLeft(_)
TrimLeft(s) == IF s # <<>> /\ IsSpace(s[1]) THEN TrimLeft(Tail(s)) ELSE s
RECURSIVE TrimRight(_)
TrimRight(s) ==
    IF s # <<>> /\ IsSpace(s[Len(s)]) THEN TrimRight(SubSeq(s, 1, Len(s) - 1)) ELSE s
TrimSpace(s) == TrimRight(TrimLeft(s))

\* ------------------------------------------------------------ parser types
\* A parsed configuration: the fields of VlessConfig, SSConfig, VmessConfig
\* and TrojanConfig in one record (a field a type lacks stays empty);
\* Protocol is what GetProtocol returns.
ZeroCfg ==
    [Protocol |-> "", Name |-> <<>>, UUID |-> <<>>, Password |-> <<>>,
     Method |-> <<>>, Server |-> <<>>, Port |-> 0, Aid |-> 0,
     Security |-> <<>>, Type |-> <<>>, SNI |-> <<>>, Host |-> <<>>,
     Path |-> <<>>, Fp |-> <<>>, Encryption |-> <<>>, Flow |-> <<>>,
     PublicKey |-> <<>>, ShortID |-> <<>>, Network |-> <<>>, TLS |-> <<>>]

\* A decoded JSON value held in an interface{}: t is its JSON type, n the
\* integer part of a number, frac whether the number has a fractional
\* part, s the text of a string.
JNull == [t |-> "null", n |-> 0, frac |-> FALSE, s |-> <<>>]
JNum(n) == [JNull EXCEPT !.t = "number", !.n = n]
JFrac(n) == [JNull EXCEPT !.t = "number", !.n = n, !.frac = TRUE]
JStr(s) == [JNull EXCEPT !.t = "string", !.s = s]
JBool == [JNull EXCEPT !.t = "bool"]
JArray == [JNull EXCEPT !.t = "array"]
JObject == [JNull EXCEPT !.t = "object"]

\* The argument of a parser function and its result; err is "" on success.
NoInput == [op |-> "none", s |-> <<>>, j |-> JNull]
NoOutput == [done |-> FALSE, err |-> "", cfg |-> ZeroCfg, s |-> <<>>, n |-> 0]

WorkerIds == 1..MaxWorkers
Ports == 1..MaxPort

\* The configurations a list is drawn from (parser.ProxyConfig values,
\* seen through GetName, GetProtocol, GetServer, GetPort).
\* The i-th configuration differs from its neighbours in every field.
ConfigAt(i) ==
    IF i % 2 = 1
    THEN [Name |-> "A", Protocol |-> "vless",  Server |-> "1.1.1.1", Port |-> 440 + i]
    ELSE [Name |-> "B", Protocol |-> "trojan", Server |-> "2.2.2.2", Port |-> 8440 + i]

\* The input line the i-th configuration was parsed from.
RawAt(i) ==
    IF i % 2 = 1
    THEN <<"v", "l", "e", "s", "s", ":", "/", "/", "u", "1", "@", "1", ".", "1", ".", "1", ".", "1", ":">> \o Itoa(440 + i) \o <<"#", "A">>
    ELSE <<"t", "r", "o", "j", "a", "n", ":", "/", "/", "p", "w", "@", "2", ".", "2", ".", "2", ".", "2", ":">> \o Itoa(8440 + i) \o <<"#", "B">>

ConfigLists == { [i \in 1..n |-> ConfigAt(i)] : n \in 0..MaxN }

\* The zero value of checker.Result.
ZeroResult ==
    [Index |-> 0, Name |-> "", Protocol |-> "", Server |-> "", Port |-> 0,
     Alive |-> FALSE, Latency |-> 0, ExitIP |-> "", Country |-> "", Error |-> ""]

total == Len(configs)

\* NewResult with the 0-based loop index passed instead of idx+1.
NewResultZeroBased(idx, cfg) ==
    [ZeroResult EXCEPT !.Index = idx - 1, !.Name = cfg.Name,
                       !.Protocol = cfg.Protocol, !.Server = cfg.Server,
                       !.Port = cfg.Port]

\* CheckConfig lines 41-47: the Result literal built on entry.
NewResult(idx, cfg) ==
    [ZeroResult EXCEPT !.Index = idx, !.Name = cfg.Name,
                       !.Protocol = cfg.Protocol, !.Server = cfg.Server,
                       !.Port = cfg.Port]

\* xrayrunner.GenerateConfig: the type switch succeeds for the four
\* parser types and fails for any other implementation.
GenerateConfigOk(cfg) ==
    cfg.Protocol \in {"vless", "shadowsocks", "vmess", "trojan"}

\* Responses of the geolocation provider, as decoded into ipAPIResponse.
ApiResponses ==
    { [Status |-> "success", Query |-> "9.9.9.9", CountryName |-> "NL", Message |-> ""],
      [Status |-> "fail", Query |-> "", CountryName |-> "", Message |-> "quota"] }

\* Where the main goroutine stands after i spawn iterations / k sends.
AfterSend(k) == IF k < total THEN "send" ELSE "close"
AfterSpawn(i) == IF i < workers THEN "spawn" ELSE AfterSend(0)

\* CheckAll lines 132-140: the locals on entry; before a call, with no
\* configuration, they are empty.
EntryLocals ==
    /\ spawned = 0
    /\ sent = 0
    /\ jobs = <<>>
    /\ closed = FALSE
    /\ wg = 0
    /\ mu = 0
    /\ results = [i \in 1..total |-> ZeroResult]
    /\ done = 0
    /\ retval = <<>>
    /\ wpc = [w \in WorkerIds |-> "unborn"]
    /\ widx = [w \in WorkerIds |-> 0]
    /\ r = [w \in WorkerIds |-> ZeroResult]
    /\ socksPort = [w \in WorkerIds |-> 0]
    /\ peer = [w \in WorkerIds |-> 0]
    /\ trace = [w \in WorkerIds |-> <<>>]
    /\ engine = [c \in 1..total |-> "none"]
    /\ bound = [p \in Ports |-> 0]
    /\ ncalls = 0
    /\ called = [c \in 1..total |-> 0]
    /\ taken = [c \in 1..total |-> 0]
    /\ written = [c \in 1..total |-> 0]

\* CheckAll lines 132-140: the state on entry, before the spawn loop.
InitState ==
    /\ mainPc = AfterSpawn(0)
    /\ EntryLocals

\* CheckAll not called (yet).
CheckAllNotCalled ==
    /\ configs = <<>>
    /\ mainPc = "notCalled"
    /\ EntryLocals

\* The parser functions at rest.
ParserIdle ==
    /\ pin = NoInput
    /\ pout = NoOutput

\* CheckAll or a parser function called by a program other than main.
NoMain ==
    /\ lines = <<>>
    /\ scanned = 0
    /\ entries = <<>>
    /\ progPc = "none"
    /\ aliveEntries = <<>>
    /\ served = FALSE

Init ==
    /\ configs \in ConfigLists
    /\ workers \in -1..MaxWorkers
    /\ onResultNil \in BOOLEAN
    /\ InitState
    /\ NoMain
    /\ ParserIdle

\* ------------------------------------------------------- main goroutine

\* CheckAll lines 142-157: one iteration of the spawn loop
\* (wg.Add(1); go func ...).
Spawn ==
    /\ mainPc = "spawn"
    /\ spawned < workers
    /\ spawned' = spawned + 1
    /\ wg' = wg + 1
    /\ wpc' = [wpc EXCEPT ![spawned + 1] = "recv"]
    /\ mainPc' = AfterSpawn(spawned + 1)
    /\ UNCHANGED <<inputVars, sent, jobs, closed, retval, widx, r,
                   checkVars, sharedVars, ghostVars>>

\* CheckAll lines 159-161: jobs <- i, which blocks while the buffer
\* (capacity total) is full.
Send ==
    /\ mainPc = "send"
    /\ Len(jobs) < total
    /\ jobs' = Append(jobs, sent)
    /\ sent' = sent + 1
    /\ mainPc' = AfterSend(sent + 1)
    /\ UNCHANGED <<inputVars, spawned, closed, retval, wg, wpc, widx, r,
                   checkVars, sharedVars, ghostVars>>

\* CloseJobs with the close(jobs) call forgotten.
CloseJobsForgotten ==
    /\ mainPc = "close"
    /\ mainPc' = "wait"
    /\ UNCHANGED <<inputVars, spawned, sent, jobs, closed, retval, wg, wpc, widx,
                   r, checkVars, sharedVars, ghostVars>>

\* CheckAll line 162: close(jobs).
CloseJobs ==
    /\ mainPc = "close"
    /\ closed' = TRUE
    /\ mainPc' = "wait"
    /\ UNCHANGED <<inputVars, spawned, sent, jobs, retval, wg, wpc, widx, r,
                   checkVars, sharedVars, ghostVars>>

\* WaitReturn without the wg.Wait() call.
WaitReturnEarly ==
    /\ mainPc = "wait"
    /\ mainPc' = "returned"
    /\ retval' = results
    /\ UNCHANGED <<inputVars, spawned, sent, jobs, closed, wg, wpc, widx, r,
                   checkVars, sharedVars, ghostVars>>

\* CheckAll lines 163-165: wg.Wait() returns once the counter is zero,
\* then the results slice is returned.
WaitReturn ==
    /\ mainPc = "wait"
    /\ wg = 0
    /\ mainPc' = "returned"
    /\ retval' = results
    /\ UNCHANGED <<inputVars, spawned, sent, jobs, closed, wg, wpc, widx, r,
                   checkVars, sharedVars, ghostVars>>

\* ------------------------------------------------------ worker goroutines

\* Recv that reads the head of jobs without removing it.
RecvNoDequeue(w) ==
    /\ wpc[w] = "recv"
    /\ jobs # <<>>
    /\ taken[Head(jobs) + 1] < 2
    /\ widx' = [widx EXCEPT ![w] = Head(jobs)]
    /\ r' = [r EXCEPT ![w] = NewResult(Head(jobs) + 1, configs[Head(jobs) + 1])]
    /\ wpc' = [wpc EXCEPT ![w] = "freePort"]
    /\ socksPort' = [socksPort EXCEPT ![w] = 0]
    /\ peer' = [peer EXCEPT ![w] = 0]
    /\ trace' = [trace EXCEPT ![w] = <<>>]
    /\ taken' = [taken EXCEPT ![Head(jobs) + 1] = @ + 1]
    /\ UNCHANGED <<inputVars, mainVars, jobs, wg, engine, bound, sharedVars,
                   written>>

\* CheckAll line 146 together with the entry of CheckConfig (line 147,
\* lines 41-47): receive the next index from jobs and build the Result.
Recv(w) ==
    /\ wpc[w] = "recv"
    /\ jobs # <<>>
    /\ jobs' = Tail(jobs)
    /\ widx' = [widx EXCEPT ![w] = Head(jobs)]
    /\ r' = [r EXCEPT ![w] = NewResult(Head(jobs) + 1, configs[Head(jobs) + 1])]
    /\ wpc' = [wpc EXCEPT ![w] = "freePort"]
    /\ socksPort' = [socksPort EXCEPT ![w] = 0]
    /\ peer' = [peer EXCEPT ![w] = 0]
    /\ trace' = [trace EXCEPT ![w] = <<>>]
    /\ taken' = [taken EXCEPT ![Head(jobs) + 1] = @ + 1]
    /\ UNCHANGED <<inputVars, mainVars, wg, engine, bound, sharedVars, written>>

\* CheckAll lines 145-146, 155: the range loop ends when jobs is closed
\* and drained; the deferred wg.Done() runs.
Exit(w) ==
    /\ wpc[w] = "recv"
    /\ jobs = <<>>
    /\ closed
    /\ wpc' = [wpc EXCEPT ![w] = "exited"]
    /\ wg' = wg - 1
    /\ UNCHANGED <<inputVars, mainVars, jobs, widx, r, checkVars, sharedVars,
                   ghostVars>>

\* FreePort returning a port without binding a listener to it first.
FreePortUnchecked(w) ==
    /\ wpc[w] = "freePort"
    /\ \E p \in Ports :
         /\ socksPort' = [socksPort EXCEPT ![w] = p]
         /\ wpc' = [wpc EXCEPT ![w] = "start"]
    /\ trace' = [trace EXCEPT ![w] = Append(@, "freePort")]
    /\ UNCHANGED <<inputVars, mainVars, jobs, wg, widx, r, peer, engine, bound,
                   sharedVars, ghostVars>>

\* freePort (lines 169-177) as called at lines 50-54: the OS binds a
\* transient listener to a port nobody listens on and the listener is closed
\* at once, so the port is free again when freePort returns; net.Listen may
\* also fail.
FreePort(w) ==
    /\ wpc[w] = "freePort"
    /\ \/ \E p \in Ports :
            /\ bound[p] = 0
            /\ socksPort' = [socksPort EXCEPT ![w] = p]
            /\ wpc' = [wpc EXCEPT ![w] = "start"]
            /\ r' = r
       \/ /\ r' = [r EXCEPT ![w].Error = "no free port"]
          /\ wpc' = [wpc EXCEPT ![w] = "lock"]
          /\ socksPort' = socksPort
    /\ trace' = [trace EXCEPT ![w] = Append(@, "freePort")]
    /\ UNCHANGED <<inputVars, mainVars, jobs, wg, widx, peer, engine, bound,
                   sharedVars, ghostVars>>

\* CheckConfig lines 56-69: GenerateConfig, then xrayrunner.Start
\* (server.go lines 410-420), which may fail to launch the process; on
\* success the deferred Stop is registered.
StartEngine(w) ==
    /\ wpc[w] = "start"
    /\ IF ~GenerateConfigOk(configs[widx[w] + 1])
       THEN /\ r' = [r EXCEPT ![w].Error = "config gen"]
            /\ wpc' = [wpc EXCEPT ![w] = "lock"]
            /\ socksPort' = [socksPort EXCEPT ![w] = 0]
            /\ trace' = [trace EXCEPT ![w] = Append(@, "genConfig")]
            /\ engine' = engine
       ELSE /\ trace' = [trace EXCEPT ![w] = @ \o <<"genConfig", "start">>]
            /\ \/ /\ r' = [r EXCEPT ![w].Error = "xray start"]
                  /\ wpc' = [wpc EXCEPT ![w] = "lock"]
                  /\ socksPort' = [socksPort EXCEPT ![w] = 0]
                  /\ engine' = engine
               \/ /\ engine' = [engine EXCEPT ![widx[w] + 1] = "running"]
                  /\ wpc' = [wpc EXCEPT ![w] = "waitPort"]
                  /\ UNCHANGED <<r, socksPort>>
    /\ UNCHANGED <<inputVars, mainVars, jobs, wg, widx, peer, bound,
                   sharedVars, ghostVars>>

\* The started engine process (xray run -config stdin:) tries to listen on
\* the inbound port of its document (server.go lines 222-233): it gets the
\* port when nobody listens on it, and exits otherwise.
EngineBind(w) ==
    /\ wpc[w] \in {"waitPort", "probe", "stop"}
    /\ engine[widx[w] + 1] = "running"
    /\ IF bound[socksPort[w]] = 0
       THEN /\ bound' = [bound EXCEPT ![socksPort[w]] = widx[w] + 1]
            /\ engine' = [engine EXCEPT ![widx[w] + 1] = "listening"]
       ELSE /\ bound' = bound
            /\ engine' = [engine EXCEPT ![widx[w] + 1] = "exited"]
    /\ UNCHANGED <<inputVars, mainVars, jobs, wg, wpc, widx, r, socksPort, peer,
                   trace, sharedVars, ghostVars>>

\* WaitForPort whose timeout records the error but does not return.
WaitForPortNoReturn(w) ==
    /\ wpc[w] = "waitPort"
    /\ \/ /\ bound[socksPort[w]] # 0
          /\ peer' = [peer EXCEPT ![w] = bound[socksPort[w]]]
          /\ r' = r
       \/ /\ r' = [r EXCEPT ![w].Error = "xray not ready"]
          /\ peer' = peer
    /\ wpc' = [wpc EXCEPT ![w] = "probe"]
    /\ trace' = [trace EXCEPT ![w] = Append(@, "waitPort")]
    /\ UNCHANGED <<inputVars, mainVars, jobs, wg, widx, socksPort, engine, bound,
                   sharedVars, ghostVars>>

\* waitForPort (lines 180-192) as called at lines 72-75: a dial to
\* 127.0.0.1:socksPort succeeds when some process listens there; the
\* deadline may pass first.
WaitForPort(w) ==
    /\ wpc[w] = "waitPort"
    /\ \/ /\ bound[socksPort[w]] # 0
          /\ peer' = [peer EXCEPT ![w] = bound[socksPort[w]]]
          /\ wpc' = [wpc EXCEPT ![w] = "probe"]
          /\ r' = r
       \/ /\ r' = [r EXCEPT ![w].Error = "xray not ready"]
          /\ wpc' = [wpc EXCEPT ![w] = "stop"]
          /\ peer' = peer
    /\ trace' = [trace EXCEPT ![w] = Append(@, "waitPort")]
    /\ UNCHANGED <<inputVars, mainVars, jobs, wg, widx, socksPort, engine, bound,
                   sharedVars, ghostVars>>

\* CheckConfig lines 77-126: SOCKS5 dialer, HTTP GET through the local
\* port, latency, body, JSON, provider status.  The request reaches
\* whichever engine listens on socksPort; without a listener the GET fails.
Probe(w) ==
    /\ wpc[w] = "probe"
    /\ \/ /\ r' = [r EXCEPT ![w].Error = "socks5 dialer"]
          /\ peer' = peer
          /\ trace' = [trace EXCEPT ![w] = Append(@, "dialer")]
       \/ /\ r' = [r EXCEPT ![w].Error = "http get"]
          /\ peer' = peer
          /\ trace' = [trace EXCEPT ![w] = @ \o <<"dialer", "get">>]
       \/ /\ bound[socksPort[w]] # 0
          /\ peer' = [peer EXCEPT ![w] = bound[socksPort[w]]]
          /\ \/ /\ r' = [r EXCEPT ![w].Latency = 1, ![w].Error = "read body"]
                /\ trace' = [trace EXCEPT ![w] = @ \o <<"dialer", "get", "read">>]
             \/ /\ r' = [r EXCEPT ![w].Latency = 1, ![w].Error = "json parse"]
                /\ trace' = [trace EXCEPT ![w] =
                                 @ \o <<"dialer", "get", "read", "parse">>]
             \/ /\ \E apiResp \in ApiResponses :
                     IF apiResp.Status # "success"
                     THEN r' = [r EXCEPT ![w].Latency = 1, ![w].Error = "ip-api"]
                     ELSE r' = [r EXCEPT ![w].Latency = 1, ![w].Alive = TRUE,
                                         ![w].ExitIP = apiResp.Query,
                                         ![w].Country = apiResp.CountryName]
                /\ trace' = [trace EXCEPT ![w] =
                                 @ \o <<"dialer", "get", "read", "parse", "status">>]
    /\ wpc' = [wpc EXCEPT ![w] = "stop"]
    /\ UNCHANGED <<inputVars, mainVars, jobs, wg, widx, socksPort, engine, bound,
                   sharedVars, ghostVars>>

\* StopEngine with the deferred Stop missing: CheckConfig just returns.
StopEngineMissing(w) ==
    /\ wpc[w] = "stop"
    /\ socksPort' = [socksPort EXCEPT ![w] = 0]
    /\ peer' = [peer EXCEPT ![w] = 0]
    /\ wpc' = [wpc EXCEPT ![w] = "lock"]
    /\ UNCHANGED <<inputVars, mainVars, jobs, wg, widx, r, trace, engine, bound,
                   sharedVars, ghostVars>>

\* The deferred xrayrunner.Stop(cmd) of line 69 (server.go lines 423-429):
\* kill the process and wait for it; its listening port is released.  Then
\* CheckConfig returns to the worker loop.
StopEngine(w) ==
    /\ wpc[w] = "stop"
    /\ engine' = [engine EXCEPT ![widx[w] + 1] = "stopped"]
    /\ bound' = [p \in Ports |-> IF bound[p] = widx[w] + 1 THEN 0 ELSE bound[p]]
    /\ socksPort' = [socksPort EXCEPT ![w] = 0]
    /\ peer' = [peer EXCEPT ![w] = 0]
    /\ wpc' = [wpc EXCEPT ![w] = "lock"]
    /\ UNCHANGED <<inputVars, mainVars, jobs, wg, widx, r, trace, sharedVars,
                   ghostVars>>

\* Lock that does not wait for the mutex to be free.
LockNoWait(w) ==
    /\ wpc[w] = "lock"
    /\ mu' = w
    /\ wpc' = [wpc EXCEPT ![w] = "write"]
    /\ UNCHANGED <<inputVars, mainVars, jobs, wg, widx, r, checkVars, results,
                   done, ncalls, called, ghostVars>>

\* CheckAll line 148: mu.Lock().
Lock(w) ==
    /\ wpc[w] = "lock"
    /\ mu = 0
    /\ mu' = w
    /\ wpc' = [wpc EXCEPT ![w] = "write"]
    /\ UNCHANGED <<inputVars, mainVars, jobs, wg, widx, r, checkVars, results,
                   done, ncalls, called, ghostVars>>

\* CheckAll line 149: results[idx] = r.
WriteSlot(w) ==
    /\ wpc[w] = "write"
    /\ results' = [results EXCEPT ![widx[w] + 1] = r[w]]
    /\ written' = [written EXCEPT ![widx[w] + 1] = @ + 1]
    /\ wpc' = [wpc EXCEPT ![w] = "inc"]
    /\ UNCHANGED <<inputVars, mainVars, jobs, wg, widx, r, checkVars, mu, done,
                   ncalls, called, taken>>

\* IncDone with the increment left out.
IncDoneSkipped(w) ==
    /\ wpc[w] = "inc"
    /\ wpc' = [wpc EXCEPT ![w] = "call"]
    /\ UNCHANGED <<inputVars, mainVars, jobs, wg, widx, r, checkVars, mu,
                   results, done, ncalls, called, ghostVars>>

\* CheckAll line 150: done++.
IncDone(w) ==
    /\ wpc[w] = "inc"
    /\ done' = done + 1
    /\ wpc' = [wpc EXCEPT ![w] = "call"]
    /\ UNCHANGED <<inputVars, mainVars, jobs, wg, widx, r, checkVars, mu,
                   results, ncalls, called, ghostVars>>

\* Number of result slots assigned so far.
SlotsWritten == Cardinality({c \in 1..total : written[c] > 0})

\* CheckAll lines 151-153: onResult(r, done, total) unless it is nil.  A
\* worker at "call" is inside the callback with arguments r[w], done and
\* total; the step is the callback returning.
CallOnResult(w) ==
    /\ wpc[w] = "call"
    /\ IF onResultNil
       THEN UNCHANGED <<ncalls, called>>
       ELSE /\ ncalls' = ncalls + 1
            /\ called' = [called EXCEPT ![widx[w] + 1] = @ + 1]
    /\ wpc' = [wpc EXCEPT ![w] = "unlock"]
    /\ UNCHANGED <<inputVars, mainVars, jobs, wg, widx, r, checkVars, mu,
                   results, done, ghostVars>>

\* Unlock after which the worker gives up when its check ended dead.
UnlockQuitOnDead(w) ==
    /\ wpc[w] = "unlock"
    /\ mu' = 0
    /\ wpc' = [wpc EXCEPT ![w] = IF r[w].Alive THEN "recv" ELSE "exited"]
    /\ wg' = IF r[w].Alive THEN wg ELSE wg - 1
    /\ widx' = [widx EXCEPT ![w] = 0]
    /\ r' = [r EXCEPT ![w] = ZeroResult]
    /\ trace' = [trace EXCEPT ![w] = <<>>]
    /\ UNCHANGED <<inputVars, mainVars, jobs, socksPort, peer, engine, bound,
                   results, done, ncalls, called, ghostVars>>

\* CheckAll line 154: mu.Unlock(), back to the head of the range loop.
Unlock(w) ==
    /\ wpc[w] = "unlock"
    /\ mu' = 0
    /\ wpc' = [wpc EXCEPT ![w] = "recv"]
    /\ widx' = [widx EXCEPT ![w] = 0]
    /\ r' = [r EXCEPT ![w] = ZeroResult]
    /\ trace' = [trace EXCEPT ![w] = <<>>]
    /\ UNCHANGED <<inputVars, mainVars, jobs, wg, socksPort, peer, engine, bound,
                   results, done, ncalls, called, ghostVars>>

Next ==
    \/ Spawn
    \/ Send
    \/ CloseJobs
    \/ WaitReturn
    \/ \E w \in WorkerIds :
         \/ Recv(w)
         \/ Exit(w)
         \/ FreePort(w)
         \/ StartEngine(w)
         \/ EngineBind(w)
         \/ WaitForPort(w)
         \/ Probe(w)
         \/ StopEngine(w)
         \/ Lock(w)
         \/ WriteSlot(w)
         \/ IncDone(w)
         \/ CallOnResult(w)
         \/ Unlock(w)

Spec == Init /\ [][Next]_vars

\* The Go scheduler runs every runnable goroutine, the engine process runs,
\* and every blocking call of CheckConfig is bounded by a timeout.
Fairness ==
    /\ WF_vars(Spawn)
    /\ WF_vars(Send)
    /\ WF_vars(CloseJobs)
    /\ WF_vars(WaitReturn)
    /\ \A w \in WorkerIds :
         /\ WF_vars(Recv(w))
         /\ WF_vars(Exit(w))
         /\ WF_vars(FreePort(w))
         /\ WF_vars(StartEngine(w))
         /\ WF_vars(WaitForPort(w))
         /\ WF_vars(Probe(w))
         /\ WF_vars(StopEngine(w))
         /\ WF_vars(Lock(w))
         /\ WF_vars(WriteSlot(w))
         /\ WF_vars(IncDone(w))
         /\ WF_vars(CallOnResult(w))
         /\ WF_vars(Unlock(w))

LiveSpec == Init /\ [][Next]_vars /\ Fairness

\* ------------------------------------------------------------ properties

Checks == 1..total
InCheck == {"freePort", "start", "waitPort", "probe", "stop"}
EngineUp == {"waitPort", "probe", "stop"}
Critical == {"write", "inc", "call", "unlock"}
Unstopped == {"running", "listening", "exited"}

\* A Result carries the identifying fields of a configuration.
Carries(res, cfg) ==
    /\ res.Name = cfg.Name
    /\ res.Protocol = cfg.Protocol
    /\ res.Server = cfg.Server
    /\ res.Port = cfg.Port

\* C1: with worker count >= 1 the list CheckAll returns has the length of
\* the configuration list, and its i-th entry (1-based here) has Index i
\* (i+1 for the 0-based i of the code) and carries the name, protocol,
\* server and port of the i-th configuration.
C1_OrderPreserved ==
    (mainPc = "returned" /\ workers >= 1) =>
        /\ Len(retval) = total
        /\ \A i \in 1..total :
             /\ retval[i].Index = i
             /\ Carries(retval[i], configs[i])

\* Two workers ran, and the second configuration's slot was written before
\* the first one's result was even produced.
C1_Witness ==
    /\ workers >= 2
    /\ total >= 2
    /\ written[2] = 1
    /\ written[1] = 0
    /\ \E w \in WorkerIds : wpc[w] \in InCheck /\ widx[w] = 0

\* C2: with worker count >= 1, when CheckAll has returned every slot has
\* been written, every onResult invocation has completed, no worker is in a
\* check or holds the lock; before that the caller has no result list.
C2_ReturnsAfterAll ==
    workers >= 1 =>
        /\ mainPc = "returned" =>
             /\ \A c \in Checks : written[c] >= 1 /\ retval[c] = results[c]
             /\ done = total
             /\ ~onResultNil => ncalls = total
             /\ mu = 0
             /\ \A w \in WorkerIds : wpc[w] \in {"unborn", "exited"}
        /\ mainPc # "returned" => retval = <<>>

C2_Witness ==
    /\ mainPc = "returned"
    /\ workers >= 2
    /\ total >= 2
    /\ ~onResultNil
    /\ ncalls = total

\* C3: for every worker count, 0 and negative ones included, the returned
\* list has Index i at position i and every entry is alive or carries an
\* error (at least one worker ran and checked every configuration).
C3_MinimumOneWorker ==
    mainPc = "returned" =>
        /\ Len(retval) = total
        /\ \A i \in 1..total :
             /\ retval[i].Index = i
             /\ (retval[i].Alive \/ retval[i].Error # "")

\* C4: the slot write, the increment of done and the onResult call of a
\* worker happen while that worker holds the mutex, and no two workers are
\* in that section (or inside onResult) at the same time.
C4_Serialized ==
    /\ \A w \in WorkerIds : wpc[w] \in Critical => mu = w
    /\ \A w1, w2 \in WorkerIds :
         (w1 # w2 /\ wpc[w1] \in Critical) => wpc[w2] \notin Critical

\* One worker is inside onResult while another one waits for the mutex.
C4_Witness ==
    \E w1, w2 \in WorkerIds :
        /\ w1 # w2
        /\ wpc[w1] = "call"
        /\ ~onResultNil
        /\ wpc[w2] = "lock"

\* C5: with worker count >= 1 and a non-nil callback, the invocation that
\* is in progress is number ncalls+1 and receives completedCount ==
\* ncalls+1 == the number of slots written, its own slot among them; no
\* configuration gets two invocations; on return there were exactly N, one
\* per configuration.
C5_CallbackCounts ==
    (workers >= 1 /\ ~onResultNil) =>
        /\ \A w \in WorkerIds :
             wpc[w] = "call" =>
                 /\ done = ncalls + 1
                 /\ done \in 1..total
                 /\ done = SlotsWritten
                 /\ written[widx[w] + 1] = 1
                 /\ results[widx[w] + 1] = r[w]
                 /\ called[widx[w] + 1] = 0
        /\ \A c \in Checks : called[c] <= 1
        /\ ncalls <= total
        /\ mainPc = "returned" =>
             /\ ncalls = total
             /\ \A c \in Checks : called[c] = 1

\* The second invocation is in progress, for the first configuration.
C5_Witness ==
    /\ workers >= 1
    /\ ~onResultNil
    /\ \E w \in WorkerIds : wpc[w] = "call" /\ done = 2 /\ widx[w] = 0

\* C6: an engine process that was started and is not yet killed and waited
\* for belongs to a check that is still between Start and its deferred
\* Stop; once that check has returned, and so once CheckAll has returned,
\* the process is stopped.
C6_EngineStopped ==
    /\ \A c \in Checks :
         engine[c] \in Unstopped =>
             \E w \in WorkerIds : widx[w] + 1 = c /\ wpc[w] \in EngineUp
    /\ mainPc = "returned" => \A c \in Checks : engine[c] \in {"none", "stopped"}

\* CheckAll returned after one check ended alive and another one ended on
\* the readiness timeout, both with their engine stopped.
C6_Witness ==
    /\ mainPc = "returned"
    /\ \E c1, c2 \in Checks :
         /\ engine[c1] = "stopped" /\ retval[c1].Alive
         /\ engine[c2] = "stopped" /\ retval[c2].Error = "xray not ready"

\* Positions at which CheckConfig has returned r[w] to the worker loop.
Returned == {"lock", "write", "inc", "call", "unlock"}

AliveShape(res) ==
    /\ res.Alive
    /\ res.Latency > 0
    /\ res.ExitIP # ""
    /\ res.Country # ""
    /\ res.Error = ""

DeadShape(res) ==
    /\ ~res.Alive
    /\ res.Error # ""
    /\ res.Latency = 0
    /\ res.ExitIP = ""
    /\ res.Country = ""

\* C7: every Result CheckConfig returns, and so every written slot, is
\* either alive with latency, exit IP and country set and no error, or dead
\* with an error and latency, exit IP and country all zero.
C7_ResultShape ==
    /\ \A w \in WorkerIds :
         wpc[w] \in Returned => (AliveShape(r[w]) \/ DeadShape(r[w]))
    /\ \A c \in Checks :
         written[c] >= 1 => (AliveShape(results[c]) \/ DeadShape(results[c]))

\* A worker's check is in flight: it has reserved a port and its engine, if
\* started, is not yet stopped.
InFlight(w) == wpc[w] \in {"start", "waitPort", "probe", "stop"}

\* C8 as stated: two checks in flight never hold the same local port, and
\* a check's probes only ever reach the engine that check started.
C8_PortExclusive ==
    /\ \A w1, w2 \in WorkerIds :
         (w1 # w2 /\ InFlight(w1) /\ InFlight(w2)) => socksPort[w1] # socksPort[w2]
    /\ \A w \in WorkerIds : peer[w] \in {0, widx[w] + 1}

\* C8 as amended: the engine listening on a port is the engine of an
\* in-flight check that reserved this port and started it, the port
\* freePort returns has no listener at that moment, and a probe reaches
\* the engine that listens on the check's port at that moment.
C8_EngineOwned ==
    /\ [](\A p \in Ports :
            bound[p] # 0 =>
                /\ engine[bound[p]] = "listening"
                /\ \E w \in WorkerIds :
                     /\ widx[w] + 1 = bound[p]
                     /\ socksPort[w] = p
                     /\ wpc[w] \in EngineUp)
    /\ [][\A w \in WorkerIds :
            /\ (wpc[w] = "freePort" /\ wpc'[w] = "start") => bound[socksPort'[w]] = 0
            /\ (peer'[w] # peer[w] /\ peer'[w] # 0) => bound[socksPort[w]] = peer'[w]
         ]_vars

\* Two checks are in flight on the same port number: one engine listens on
\* it and the other check's probe has connected to that engine.
C8_Witness ==
    \E w1, w2 \in WorkerIds :
        /\ w1 # w2
        /\ socksPort[w1] # 0
        /\ socksPort[w1] = socksPort[w2]
        /\ engine[widx[w1] + 1] = "listening"
        /\ wpc[w2] = "probe"
        /\ peer[w2] = widx[w1] + 1

\* C9: with worker count >= 1 every index is received from the queue, and
\* CheckConfig entered for it, at most once and on return exactly once; its
\* slot is written once, and a written slot never changes again.
C9_ExactlyOnce ==
    /\ [](workers >= 1 =>
            /\ \A c \in Checks :
                 /\ taken[c] <= 1
                 /\ written[c] <= taken[c]
            /\ mainPc = "returned" =>
                 \A c \in Checks : taken[c] = 1 /\ written[c] = 1)
    /\ [][workers >= 1 =>
            \A c \in Checks : written[c] >= 1 => results'[c] = results[c]]_vars

\* CheckAll returned, a configuration ended dead, and it was taken once.
C9_Witness ==
    /\ mainPc = "returned"
    /\ workers >= 2
    /\ \E c \in Checks :
         /\ ~retval[c].Alive
         /\ retval[c].Error = "http get"
         /\ taken[c] = 1

\* C10: the producer never finds the queue full, and with worker count
\* >= 1 (every step of a check terminating) CheckAll eventually returns,
\* also for an empty list and for more workers than configurations.
C10_Terminates ==
    /\ [](mainPc = "send" => Len(jobs) < total)
    /\ workers >= 1 => <>(mainPc = "returned")

\* CheckAll returned although there were more workers than configurations.
C10_Witness ==
    /\ mainPc = "returned"
    /\ workers > total
    /\ total >= 1
    /\ \A w \in 1..workers : wpc[w] = "exited"

\* ------------------------------------------- CheckConfig on its own

\* A ProxyConfig implementation that is none of the four parser types.
CustomConfig ==
    [Name |-> "C", Protocol |-> "custom", Server |-> "3.3.3.3", Port |-> 1080]

CheckConfigLists ==
    UNION { [1..n -> {ConfigAt(1), CustomConfig}] : n \in 1..MaxN }

\* One worker checks the configurations one after the other.
InitCheck ==
    /\ configs \in CheckConfigLists
    /\ workers = 1
    /\ onResultNil = FALSE
    /\ InitState
    /\ NoMain
    /\ ParserIdle

CheckSpec == InitCheck /\ [][Next]_vars

\* The steps of CheckConfig in the order of the code, and the error prefix
\* each of them sets when it fails.
StepOrder ==
    <<"freePort", "genConfig", "start", "waitPort", "dialer", "get", "read",
      "parse", "status">>

StepError ==
    [freePort |-> "no free port", genConfig |-> "config gen",
     start |-> "xray start", waitPort |-> "xray not ready",
     dialer |-> "socks5 dialer", get |-> "http get", read |-> "read body",
     parse |-> "json parse", status |-> "ip-api"]

\* C11: the steps a check performed are an initial part of the fixed order;
\* an error is the one of the last step performed, and once a step failed
\* no further step is performed; a Result is alive only after all steps; the
\* engine is not started after a failed port reservation or document
\* build; after a readiness timeout the Result is dead with latency unset
\* and no HTTP request was made.
C11_ShortCircuit ==
    /\ [](\A w \in WorkerIds :
            /\ Len(trace[w]) <= Len(StepOrder)
            /\ \A k \in 1..Len(trace[w]) : trace[w][k] = StepOrder[k]
            /\ r[w].Error # "" =>
                 /\ trace[w] # <<>>
                 /\ r[w].Error = StepError[trace[w][Len(trace[w])]]
                 /\ ~r[w].Alive
            /\ r[w].Alive => trace[w] = StepOrder
            /\ r[w].Error \in {"no free port", "config gen"} =>
                 engine[widx[w] + 1] = "none"
            /\ r[w].Error = "xray not ready" =>
                 /\ r[w].Latency = 0
                 /\ \A k \in 1..Len(trace[w]) : trace[w][k] # "get")
    /\ [][\A w \in WorkerIds :
            r[w].Error # "" => (trace'[w] = trace[w] \/ trace'[w] = <<>>)]_vars

\* CheckAll returned after the document build failed for the first
\* configuration and the engine of the second one never became ready.
C11_Witness ==
    /\ mainPc = "returned"
    /\ total >= 2
    /\ retval[1].Error = "config gen"
    /\ engine[1] = "none"
    /\ retval[2].Error = "xray not ready"
    /\ retval[2].Latency = 0

\* C12: a check that ends dead, whatever step failed, stops nothing: the
\* failing step leads to the return of CheckConfig, the worker that holds
\* the dead Result goes through the critical section back to the queue,
\* and when CheckAll has returned (worker count >= 1) every configuration
\* has its own Result, the dead ones with their error.
C12_FailureNotFatal ==
    /\ [](workers >= 1 /\ mainPc = "returned" =>
            \A c \in Checks :
                /\ written[c] = 1
                /\ retval[c].Index = c
                /\ (retval[c].Alive \/ retval[c].Error # ""))
    /\ [][\A w \in WorkerIds :
            /\ (r[w].Error = "" /\ r'[w].Error # "") => wpc'[w] \in {"stop", "lock"}
            /\ (wpc[w] \in Returned /\ ~r[w].Alive) =>
                 wpc'[w] \in Returned \union {"recv"}
            /\ (wpc[w] = "unlock" /\ wpc'[w] # "unlock") => wpc'[w] = "recv"
         ]_vars

\* A single worker got a dead Result for the first configuration (the
\* engine could not be started) and went on to find the second one alive.
C12_Witness ==
    /\ mainPc = "returned"
    /\ workers = 1
    /\ total >= 2
    /\ retval[1].Error = "xray start"
    /\ retval[2].Alive

\* The engine processes that were started and are not yet killed and
\* waited for.
EnginesUp == {c \in Checks : engine[c] \in Unstopped}

\* C20: the engine processes started and not yet stopped number at most
\* the worker count (none when the count is not positive), and at most the
\* worker goroutines started so far; each of them is the engine of the
\* current check of exactly one worker, so a worker that is back at the
\* queue has none.
C20_EnginesBounded ==
    /\ Cardinality(EnginesUp) <= (IF workers > 0 THEN workers ELSE 0)
    /\ Cardinality(EnginesUp) <= spawned
    /\ \A c \in EnginesUp :
         Cardinality({w \in WorkerIds : widx[w] + 1 = c /\ wpc[w] \in EngineUp}) = 1
    /\ \A w \in WorkerIds :
         wpc[w] \in {"recv", "freePort", "start"} =>
             \A c \in EnginesUp : \E w2 \in WorkerIds \ {w} : widx[w2] + 1 = c

\* As many engines are up as there are workers, one of them listening and
\* another one started and not yet listening.
C20_Witness ==
    /\ workers >= 2
    /\ Cardinality(EnginesUp) = workers
    /\ \E c1, c2 \in EnginesUp : engine[c1] = "listening" /\ engine[c2] = "running"

\* ------------------------------------------------- main after the checks

\* Everything CheckAll and CheckConfig read or write.
checkAllVars ==
    <<configs, workers, onResultNil, mainVars, jobs, wg, wpc, widx, r,
      checkVars, sharedVars, ghostVars>>

\* buildAliveEntries pairing a Result with the entry after its own
\* (entries[r.Index] instead of entries[r.Index-1]).
RECURSIVE buildAliveEntriesNextLine(_, _)
buildAliveEntriesNextLine(rs, ents) ==
    IF rs = <<>> THEN <<>>
    ELSE LET res == Head(rs)
             rawURI == IF res.Index >= 1 /\ res.Index + 1 <= Len(ents)
                       THEN ents[res.Index + 1].RawURI
                       ELSE <<>>
         IN  (IF res.Alive THEN <<[Result |-> res, RawURI |-> rawURI]>> ELSE <<>>)
                 \o buildAliveEntriesNextLine(Tail(rs), ents)

\* main.go lines 174-187. entries[r.Index-1] of the 0-based slice is
\* ents[res.Index] of the 1-based sequence.
RECURSIVE buildAliveEntries(_, _)
buildAliveEntries(rs, ents) ==
    IF rs = <<>> THEN <<>>
    ELSE LET res == Head(rs)
             rawURI == IF res.Index >= 1 /\ res.Index <= Len(ents)
                       THEN ents[res.Index].RawURI
                       ELSE <<>>
         IN  (IF res.Alive THEN <<[Result |-> res, RawURI |-> rawURI]>> ELSE <<>>)
                 \o buildAliveEntries(Tail(rs), ents)

\* main.go lines 133-134: with -serve set, main builds the alive listing
\* from what CheckAll returned and from the entries readConfigs returned.
MainBuildAlive ==
    /\ progPc = "checkAll"
    /\ mainPc = "returned"
    /\ aliveEntries' = buildAliveEntries(retval, entries)
    /\ served' = TRUE
    /\ progPc' = "serve"
    /\ UNCHANGED <<checkAllVars, lines, scanned, entries, parseVars>>

\* main.go lines 46-60 and 112: readConfigs returned one entry per
\* configuration, each with the line it was parsed from; the list is not
\* empty, and onResult is not nil.
MainAtCheckAll ==
    /\ lines = [i \in 1..total |-> RawAt(i)]
    /\ scanned = total
    /\ entries = [i \in 1..total |-> [RawURI |-> RawAt(i), Config |-> configs[i]]]
    /\ progPc = "checkAll"
    /\ aliveEntries = <<>>
    /\ served = FALSE

MainInit ==
    /\ configs \in ConfigLists \ {<<>>}
    /\ workers \in -1..MaxWorkers
    /\ onResultNil = FALSE
    /\ InitState
    /\ MainAtCheckAll
    /\ ParserIdle

MainNext == Next \/ MainBuildAlive

MainSpec == MainInit /\ [][MainNext]_vars

\* The positions of the alive Results of the returned list.
AlivePositions == {i \in 1..Len(retval) : retval[i].Alive}

\* C19: once the alive listing is built (worker count >= 1) it has one entry
\* per alive Result of the returned list and none for a dead one, in the
\* order of the list; the k-th entry carries the k-th alive Result and the
\* input line its configuration was parsed from, which is not empty and
\* is the line of no other configuration.
C19_AliveListing ==
    (served /\ workers >= 1) =>
        /\ Len(aliveEntries) = Cardinality(AlivePositions)
        /\ \A k \in 1..Len(aliveEntries) :
             \E i \in AlivePositions :
                /\ Cardinality({j \in AlivePositions : j <= i}) = k
                /\ aliveEntries[k].Result = retval[i]
                /\ aliveEntries[k].Result.Alive
                /\ aliveEntries[k].RawURI = lines[i]
                /\ aliveEntries[k].RawURI = entries[retval[i].Index].RawURI
                /\ aliveEntries[k].RawURI # <<>>
                /\ \A j \in 1..total : j # i => aliveEntries[k].RawURI # lines[j]

\* A listing of one entry, built from a list whose first Result is dead and
\* whose second is alive.
C19_Witness ==
    /\ served
    /\ workers >= 1
    /\ total = 2
    /\ ~retval[1].Alive
    /\ retval[2].Alive
    /\ Len(aliveEntries) = 1
    /\ aliveEntries[1].RawURI = RawAt(2)

\* ------------------------------------------------------- percent-decoding

HexDigits == <<"0", "1", "2", "3", "4", "5", "6", "7", "8", "9", "A", "B", "C", "D", "E", "F">>
LowerHex == <<"a", "b", "c", "d", "e", "f">>
IsHex(c) ==
    \/ \E i \in 1..Len(HexDigits) : HexDigits[i] = c
    \/ \E i \in 1..Len(LowerHex) : LowerHex[i] = c
HexVal(c) ==
    IF \E i \in 1..Len(HexDigits) : HexDigits[i] = c
    THEN (CHOOSE i \in 1..Len(HexDigits) : HexDigits[i] = c) - 1
    ELSE (CHOOSE i \in 1..Len(LowerHex) : LowerHex[i] = c) + 9

\* net/url unescape, first pass: every '%' is followed by two hex digits.
ValidEscapes(s) ==
    \A i \in 1..Len(s) :
        s[i] = "%" => i + 2 <= Len(s) /\ IsHex(s[i + 1]) /\ IsHex(s[i + 2])

\* net/url unescape, second pass, for a string whose escapes are valid:
\* %XX becomes the byte XX, and in query mode (plus = TRUE) '+' becomes a
\* space. The two characters after a '%' are hex digits, so a character
\* is part of an escape exactly when a '%' stands one or two places
\* before it.
UnescapeChars(s, plus) ==
    LET inEscape(i) == (i > 1 /\ s[i - 1] = "%") \/ (i > 2 /\ s[i - 2] = "%")
        starts == SelectSeq([i \in 1..Len(s) |-> i], LAMBDA i : ~inEscape(i))
        char(i) == IF s[i] = "%" THEN Chr(16 * HexVal(s[i + 1]) + HexVal(s[i + 2]))
                   ELSE IF s[i] = "+" /\ plus THEN " "
                   ELSE s[i]
    IN  [k \in 1..Len(starts) |-> char(starts[k])]

\* url.QueryUnescape: returns "" and an error on a malformed escape.
QueryUnescape(s) ==
    IF ValidEscapes(s)
    THEN [ok |-> TRUE, s |-> UnescapeChars(s, TRUE)]
    ELSE [ok |-> FALSE, s |-> <<>>]

\* net/url unescape in the modes used for the fragment and the user-info:
\* '+' is left alone.
PathUnescape(s) ==
    IF ValidEscapes(s)
    THEN [ok |-> TRUE, s |-> UnescapeChars(s, FALSE)]
    ELSE [ok |-> FALSE, s |-> <<>>]

\* ------------------------------------------------------------------ base64

StdAlphabet ==
    <<"A", "B", "C", "D", "E", "F", "G", "H", "I", "J", "K", "L", "M", "N", "O", "P", "Q", "R", "S", "T", "U", "V", "W", "X", "Y", "Z">> \o <<"a", "b", "c", "d", "e", "f", "g", "h", "i", "j", "k", "l", "m", "n", "o", "p", "q", "r", "s", "t", "u", "v", "w", "x", "y", "z">> \o <<"0", "1", "2", "3", "4", "5", "6", "7", "8", "9", "+", "/">>
UrlAlphabet ==
    <<"A", "B", "C", "D", "E", "F", "G", "H", "I", "J", "K", "L", "M", "N", "O", "P", "Q", "R", "S", "T", "U", "V", "W", "X", "Y", "Z">> \o <<"a", "b", "c", "d", "e", "f", "g", "h", "i", "j", "k", "l", "m", "n", "o", "p", "q", "r", "s", "t", "u", "v", "w", "x", "y", "z">> \o <<"0", "1", "2", "3", "4", "5", "6", "7", "8", "9", "-", "_">>

InAlphabet(c, alpha) == \E i \in 1..Len(alpha) : alpha[i] = c
Sextet(c, alpha) == (CHOOSE i \in 1..Len(alpha) : alpha[i] = c) - 1

\* The bytes of a run of base64 characters: 4 characters give 3 bytes, a
\* final group of 3 gives 2 and of 2 gives 1 (its spare bits are not
\* looked at: the encodings are not Strict).
B64Bytes(data, alpha) ==
    LET v(i) == IF i <= Len(data) THEN Sextet(data[i], alpha) ELSE 0
        byte(k) ==
            LET g == 4 * ((k - 1) \div 3)
            IN  IF (k - 1) % 3 = 0 THEN v(g + 1) * 4 + (v(g + 2) \div 16)
                ELSE IF (k - 1) % 3 = 1 THEN (v(g + 2) % 16) * 16 + (v(g + 3) \div 4)
                ELSE (v(g + 3) % 4) * 64 + v(g + 4)
    IN  [k \in 1..((Len(data) * 6) \div 8) |-> byte(k)]

\* string(b)
BytesToString(bs) == [i \in 1..Len(bs) |-> Chr(bs[i])]

\* Number of '=' at the end of s.
RECURSIVE TrailingPads(_)
TrailingPads(s) ==
    IF s # <<>> /\ s[Len(s)] = "=" THEN 1 + TrailingPads(SubSeq(s, 1, Len(s) - 1)) ELSE 0

\* (*Encoding).DecodeString. Without padding every character must be of
\* the alphabet and a final group of one character is corrupt; with
\* padding the length is a multiple of 4 and '=' stands only in the last
\* one or two places.
DecodeString(s, alpha, padded) ==
    LET k == IF padded THEN TrailingPads(s) ELSE 0
        data == SubSeq(s, 1, Len(s) - k)
        wellFormed ==
            /\ \A i \in 1..Len(data) : InAlphabet(data[i], alpha)
            /\ IF padded THEN Len(s) % 4 = 0 /\ k <= 2 ELSE Len(s) % 4 # 1
    IN  IF wellFormed
        THEN [ok |-> TRUE, s |-> BytesToString(B64Bytes(data, alpha))]
        ELSE [ok |-> FALSE, s |-> <<>>]

\* parser.go lines 325-331: s padded with '=' to a multiple of 4.
Padded(s) ==
    IF Len(s) % 4 = 2 THEN s \o <<"=", "=">>
    ELSE IF Len(s) % 4 = 3 THEN s \o <<"=">>
    ELSE s

\* parser.go lines 333-343: the first of the three decodings that
\* succeeds, or the failure of the last one.
FirstDecoded(raw, std, urlp) == IF raw.ok THEN raw ELSE IF std.ok THEN std ELSE urlp
DecodeVariants(s) ==
    FirstDecoded(DecodeString(s, UrlAlphabet, FALSE),
                 DecodeString(Padded(s), StdAlphabet, TRUE),
                 DecodeString(Padded(s), UrlAlphabet, TRUE))

\* parser.go lines 322-344. The error of QueryUnescape is dropped and s
\* is then the empty string.
base64DecodeUserinfo(s0) == DecodeVariants(QueryUnescape(s0).s)

\* The base64 text of a byte sequence (RFC 4648), with or without
\* padding: what an encoder of each of the three variants produces.
B64Encode(bs, alpha, pad) ==
    LET b(i) == IF i <= Len(bs) THEN bs[i] ELSE 0
        char(j) ==
            LET g == 3 * ((j - 1) \div 4)
            IN  IF (j - 1) % 4 = 0 THEN alpha[(b(g + 1) \div 4) + 1]
                ELSE IF (j - 1) % 4 = 1
                     THEN alpha[((b(g + 1) % 4) * 16 + (b(g + 2) \div 16)) + 1]
                ELSE IF (j - 1) % 4 = 2
                     THEN alpha[((b(g + 2) % 16) * 4 + (b(g + 3) \div 64)) + 1]
                ELSE alpha[(b(g + 3) % 64) + 1]
        text == [j \in 1..((Len(bs) * 8 + 5) \div 6) |-> char(j)]
    IN  text \o (IF ~pad \/ Len(bs) % 3 = 0 THEN <<>>
                 ELSE IF Len(bs) % 3 = 1 THEN <<"=", "=">>
                 ELSE <<"=">>)

StringToBytes(s) == [i \in 1..Len(s) |-> Ord(s[i])]
EncodeToString(s, alpha, pad) == B64Encode(StringToBytes(s), alpha, pad)

\* ----------------------------------------------------------------- net/url

Letters == <<"A", "B", "C", "D", "E", "F", "G", "H", "I", "J", "K", "L", "M", "N", "O", "P", "Q", "R", "S", "T", "U", "V", "W", "X", "Y", "Z">> \o <<"a", "b", "c", "d", "e", "f", "g", "h", "i", "j", "k", "l", "m", "n", "o", "p", "q", "r", "s", "t", "u", "v", "w", "x", "y", "z">>
IsAlnum(c) == IsDigit(c) \/ \E i \in 1..Len(Letters) : Letters[i] = c
IsUnreserved(c) == IsAlnum(c) \/ c \in {"-", "_", ".", "~"}

\* strings.Cut at the first occurrence of the character c.
CutBefore(s, c) == IF IndexOf(s, c) = 0 THEN s ELSE Before(s, IndexOf(s, c))
CutAfter(s, c) == IF IndexOf(s, c) = 0 THEN <<>> ELSE After(s, IndexOf(s, c))

\* strings.Split at every occurrence of the character c.
RECURSIVE Split(_, _)
Split(s, c) ==
    IF IndexOf(s, c) = 0 THEN <<s>>
    ELSE <<Before(s, IndexOf(s, c))>> \o Split(After(s, IndexOf(s, c)), c)

\* net/url validUserinfo
ValidUserinfo(s) ==
    \A i \in 1..Len(s) :
        \/ IsAlnum(s[i])
        \/ s[i] \in {"-", ".", "_", ":", "~", "!", "$", "&", "'", "(", ")", "*",
                     "+", ",", ";", "=", "%", "@"}

\* net/url parseHost for a host that is no bracketed IPv6 literal: what
\* follows the last colon is a port of digits only, the characters are
\* those a host name may hold, and a percent-escape is %25 or a byte of
\* 0x80 and above.
ValidHost(s) ==
    /\ LastIndexOf(s, ":") # 0 => AllDigits(After(s, LastIndexOf(s, ":")))
    /\ ValidEscapes(s)
    /\ \A i \in 1..Len(s) :
          /\ \/ IsUnreserved(s[i])
             \/ s[i] \in {"!", "$", "&", "'", "(", ")", "*", "+", ",", ";", "=",
                          ":", "[", "]", "<", ">", "\"", "%"}
          /\ s[i] = "%" => (HexVal(s[i + 1]) >= 8 \/ SubSeq(s, i, i + 2) = <<"%", "2", "5">>)

\* net/url parseAuthority: the user-info runs to the last '@' of the
\* authority and the host follows it; the user name and the password are
\* the user-info cut at its first ':', each unescaped.
UserinfoOf(authority) ==
    IF LastIndexOf(authority, "@") = 0 THEN <<>>
    ELSE Before(authority, LastIndexOf(authority, "@"))
HostportOf(authority) ==
    IF LastIndexOf(authority, "@") = 0 THEN authority
    ELSE After(authority, LastIndexOf(authority, "@"))
AuthorityOf(hasUser, userinfo, hostport) ==
    [ok |-> /\ ValidHost(hostport)
            /\ hasUser => /\ ValidUserinfo(userinfo)
                          /\ PathUnescape(CutBefore(userinfo, ":")).ok
                          /\ PathUnescape(CutAfter(userinfo, ":")).ok,
     HasUser |-> hasUser,
     Username |-> PathUnescape(CutBefore(userinfo, ":")).s,
     PasswordSet |-> IndexOf(userinfo, ":") # 0,
     Password |-> PathUnescape(CutAfter(userinfo, ":")).s,
     Host |-> PathUnescape(hostport).s]
parseAuthority(authority) ==
    AuthorityOf(LastIndexOf(authority, "@") # 0, UserinfoOf(authority), HostportOf(authority))

\* net/url parse, for what stands between "scheme:" and the fragment: a
\* lone '?' at the end is dropped, the query is what follows the first
\* '?', and of the text after "//" the authority runs to the first '/'
\* and the path starts there.
ForceQuery(rest) == rest # <<>> /\ IndexOf(rest, "?") = Len(rest)
RawQueryOf(rest) == IF ForceQuery(rest) THEN <<>> ELSE CutAfter(rest, "?")
BeforeQuery(rest) == IF ForceQuery(rest) THEN Before(rest, Len(rest)) ELSE CutBefore(rest, "?")
HierOf(rest) == SubSeq(BeforeQuery(rest), 3, Len(BeforeQuery(rest)))
PathOf(hier) ==
    IF IndexOf(hier, "/") = 0 THEN <<>> ELSE SubSeq(hier, IndexOf(hier, "/"), Len(hier))
UrlOf(clean, rawQuery, path, auth, fragment) ==
    [ok |-> clean /\ auth.ok /\ ValidEscapes(path) /\ fragment.ok,
     HasUser |-> auth.HasUser, Username |-> auth.Username,
     PasswordSet |-> auth.PasswordSet, Password |-> auth.Password, Host |-> auth.Host,
     RawQuery |-> rawQuery, Fragment |-> fragment.s]
parseHier(clean, rawQuery, hier, fragment) ==
    UrlOf(clean, rawQuery, PathOf(hier), parseAuthority(CutBefore(hier, "/")), fragment)
parseRest(clean, rest, fragment) ==
    parseHier(clean, RawQueryOf(rest), HierOf(rest), fragment)

\* url.Parse of a line that begins with a scheme followed by "//" (the
\* lines ParseLine hands to it): the fragment is what follows the first
\* '#' and is unescaped, the rest after "scheme:" goes to parse. A
\* control character anywhere is an error.
UrlParse(raw) ==
    parseRest(\A i \in 1..Len(raw) : raw[i] # "\t",
              CutAfter(CutBefore(raw, "#"), ":"),
              PathUnescape(CutAfter(raw, "#")))

\* (*URL).Hostname and (*URL).Port
Hostname(u) ==
    IF LastIndexOf(u.Host, ":") = 0 THEN u.Host
    ELSE Before(u.Host, LastIndexOf(u.Host, ":"))
Port(u) ==
    IF LastIndexOf(u.Host, ":") = 0 THEN <<>>
    ELSE After(u.Host, LastIndexOf(u.Host, ":"))

\* net/url escape in user-info mode: all but the unreserved characters and
\* $ & + , ; = becomes %XX.
RECURSIVE EscapeUserinfo(_)
EscapeUserinfo(s) ==
    IF s = <<>> THEN <<>>
    ELSE (IF IsUnreserved(s[1]) \/ s[1] \in {"$", "&", "+", ",", ";", "="}
          THEN <<s[1]>>
          ELSE <<"%", HexDigits[(Ord(s[1]) \div 16) + 1], HexDigits[(Ord(s[1]) % 16) + 1]>>)
             \o EscapeUserinfo(Tail(s))

\* (*Userinfo).Username and (*Userinfo).String; both give "" for a URL
\* without user-info.
Username(u) == IF u.HasUser THEN u.Username ELSE <<>>
UserString(u) ==
    IF ~u.HasUser THEN <<>>
    ELSE EscapeUserinfo(u.Username)
             \o (IF u.PasswordSet THEN <<":">> \o EscapeUserinfo(u.Password) ELSE <<>>)

\* url.ParseQuery as (*URL).Query uses it: the key=value pairs in order;
\* an empty segment, one with a semicolon and one with a malformed escape
\* are dropped.
QueryPairOf(seg, key, val) ==
    IF seg # <<>> /\ IndexOf(seg, ";") = 0 /\ key.ok /\ val.ok
    THEN <<[k |-> key.s, v |-> val.s]>>
    ELSE <<>>
RECURSIVE QueryPairs(_)
QueryPairs(segs) ==
    IF segs = <<>> THEN <<>>
    ELSE QueryPairOf(Head(segs),
                     QueryUnescape(CutBefore(Head(segs), "=")),
                     QueryUnescape(CutAfter(Head(segs), "=")))
             \o QueryPairs(Tail(segs))
Query(u) == QueryPairs(Split(u.RawQuery, "&"))

\* url.Values.Get: the first value of the key, "" when there is none.
Get(q, key) ==
    IF \E i \in 1..Len(q) : q[i].k = key
    THEN q[CHOOSE i \in 1..Len(q) : q[i].k = key /\ \A j \in 1..(i - 1) : q[j].k # key].v
    ELSE <<>>

\* ------------------------------------------------------- the URI parsers

\* A parse result: err is "" and cfg the configuration on success.
Fail(msg) == [err |-> msg, cfg |-> ZeroCfg]
Parsed(cfg) == [err |-> "", cfg |-> cfg]

\* The display name of parseVless, parseSS and parseTrojan: the fragment,
\* run through url.QueryUnescape when that succeeds, or "host:port" when
\* the fragment is empty.
DisplayName(fragment, host, port) ==
    IF fragment = <<>> THEN host \o <<":">> \o Itoa(port)
    ELSE IF QueryUnescape(fragment).ok THEN QueryUnescape(fragment).s
    ELSE fragment

\* The port of the URL, or the scheme's default when the URL has none.
PortOr(u, default) == Atoi(IF Port(u) = <<>> THEN default ELSE Port(u))

\* parser.go lines 117-162: parseVless is parseVlessURL of the parsed URL,
\* which is vlessConfig of the URL, its port and its query.
vlessConfig(u, port, q) ==
    IF ~u.ok THEN Fail("vless parse error")
    ELSE IF ~port.ok THEN Fail("invalid port")
    ELSE Parsed([ZeroCfg EXCEPT
             !.Protocol = "vless",
             !.UUID = Username(u),
             !.Server = Hostname(u),
             !.Port = port.n,
             !.Security = Get(q, <<"s", "e", "c", "u", "r", "i", "t", "y">>),
             !.Type = Get(q, <<"t", "y", "p", "e">>),
             !.SNI = Get(q, <<"s", "n", "i">>),
             !.Host = Get(q, <<"h", "o", "s", "t">>),
             !.Path = Get(q, <<"p", "a", "t", "h">>),
             !.Fp = Get(q, <<"f", "p">>),
             !.Encryption = Get(q, <<"e", "n", "c", "r", "y", "p", "t", "i", "o", "n">>),
             !.Flow = Get(q, <<"f", "l", "o", "w">>),
             !.PublicKey = Get(q, <<"p", "b", "k">>),
             !.ShortID = Get(q, <<"s", "i", "d">>),
             !.Name = DisplayName(u.Fragment, Hostname(u), port.n)])
parseVlessURL(u) == vlessConfig(u, PortOr(u, <<"4", "4", "3">>), Query(u))
parseVless(raw) == parseVlessURL(UrlParse(raw))

\* ssConfig splitting the user-info at every colon and asking for exactly
\* two fields (strings.Split instead of strings.SplitN(.., 2)).
ssConfigSplitAll(u, port, decoded) ==
    IF ~u.ok THEN Fail("ss parse error")
    ELSE IF ~port.ok THEN Fail("invalid port")
    ELSE IF ~decoded.ok THEN Fail("ss userinfo decode error")
    ELSE IF Len(Split(decoded.s, ":")) # 2 THEN Fail("ss userinfo format invalid")
    ELSE Parsed([ZeroCfg EXCEPT
             !.Protocol = "shadowsocks",
             !.Method = Split(decoded.s, ":")[1],
             !.Password = Split(decoded.s, ":")[2],
             !.Server = Hostname(u),
             !.Port = port.n,
             !.Name = DisplayName(u.Fragment, Hostname(u), port.n)])

\* parser.go lines 164-208: parseSS is parseSSURL of the parsed URL, which
\* is ssConfig of the URL, its port and its decoded user-info.
\* strings.SplitN(decoded, ":", 2) gives one part when decoded has no
\* colon, else the text before the first colon and all the text after it.
ssConfig(u, port, decoded) ==
    IF ~u.ok THEN Fail("ss parse error")
    ELSE IF ~port.ok THEN Fail("invalid port")
    ELSE IF ~decoded.ok THEN Fail("ss userinfo decode error")
    ELSE IF IndexOf(decoded.s, ":") = 0 THEN Fail("ss userinfo format invalid")
    ELSE Parsed([ZeroCfg EXCEPT
             !.Protocol = "shadowsocks",
             !.Method = CutBefore(decoded.s, ":"),
             !.Password = CutAfter(decoded.s, ":"),
             !.Server = Hostname(u),
             !.Port = port.n,
             !.Name = DisplayName(u.Fragment, Hostname(u), port.n)])
parseSSURL(u) == ssConfig(u, PortOr(u, <<"8", "3", "8", "8">>), base64DecodeUserinfo(UserString(u)))
parseSS(raw) == parseSSURL(UrlParse(raw))

\* parser.go lines 274-319: parseTrojan is parseTrojanURL of the parsed
\* URL, which is trojanConfig of the URL, its port and its query.
trojanConfig(u, port, q) ==
    IF ~u.ok THEN Fail("trojan parse error")
    ELSE IF ~port.ok THEN Fail("invalid port")
    ELSE Parsed([ZeroCfg EXCEPT
             !.Protocol = "trojan",
             !.Password = Username(u),
             !.Server = Hostname(u),
             !.Port = port.n,
             !.Security = IF Get(q, <<"s", "e", "c", "u", "r", "i", "t", "y">>) = <<>> THEN <<"t", "l", "s">>
                          ELSE Get(q, <<"s", "e", "c", "u", "r", "i", "t", "y">>),
             !.Type = Get(q, <<"t", "y", "p", "e">>),
             !.SNI = Get(q, <<"s", "n", "i">>),
             !.Host = Get(q, <<"h", "o", "s", "t">>),
             !.Path = Get(q, <<"p", "a", "t", "h">>),
             !.Fp = Get(q, <<"f", "p">>),
             !.Name = DisplayName(u.Fragment, Hostname(u), port.n)])
parseTrojanURL(u) == trojanConfig(u, PortOr(u, <<"4", "4", "3">>), Query(u))
parseTrojan(raw) == parseTrojanURL(UrlParse(raw))

\* ------------------------------------------------------------------- toInt

\* toInt accepting no nil (a missing or null field is an error).
toIntRejectNil(j) ==
    IF j.t = "number" THEN [ok |-> TRUE, n |-> j.n]
    ELSE IF j.t = "string"
         THEN IF j.s = <<>> THEN [ok |-> TRUE, n |-> 0] ELSE Atoi(j.s)
         ELSE [ok |-> FALSE, n |-> 0]

\* parser.go lines 347-361. int(x) of a float64 drops the fractional part.
toInt(j) ==
    IF j.t = "number" THEN [ok |-> TRUE, n |-> j.n]
    ELSE IF j.t = "string"
         THEN IF j.s = <<>> THEN [ok |-> TRUE, n |-> 0] ELSE Atoi(j.s)
         ELSE IF j.t = "null" THEN [ok |-> TRUE, n |-> 0]
              ELSE [ok |-> FALSE, n |-> 0]

\* -------------------------------------------------------------------- JSON

\* The text between the first and the last character of s.
Inner(s) == SubSeq(s, 2, Len(s) - 1)
Enclosed(s, open, close) == Len(s) >= 2 /\ s[1] = open /\ s[Len(s)] = close

\* A JSON number without sign and exponent: digits, or digits '.' digits.
IsInteger(s) == s # <<>> /\ AllDigits(s)
IsNumber(s) ==
    \/ IsInteger(s)
    \/ /\ IndexOf(s, ".") # 0
       /\ IsInteger(CutBefore(s, "."))
       /\ IsInteger(CutAfter(s, "."))

\* Whether s is the text of a JSON value of the kinds considered: null,
\* true, false, [], {}, a string without escapes, a number.
IsJsonValue(s) ==
    \/ s \in {<<"n", "u", "l", "l">>, <<"t", "r", "u", "e">>, <<"f", "a", "l", "s", "e">>, <<"[", "]">>, <<"{", "}">>}
    \/ Enclosed(s, "\"", "\"") /\ IndexOf(Inner(s), "\"") = 0
    \/ IsNumber(s)

\* The value json.Unmarshal stores in an interface{} for the text s.
JsonValue(s) ==
    IF s = <<"n", "u", "l", "l">> THEN JNull
    ELSE IF s \in {<<"t", "r", "u", "e">>, <<"f", "a", "l", "s", "e">>} THEN JBool
    ELSE IF s = <<"[", "]">> THEN JArray
    ELSE IF s = <<"{", "}">> THEN JObject
    ELSE IF Enclosed(s, "\"", "\"") THEN JStr(Inner(s))
    ELSE IF IsInteger(s) THEN JNum(DecVal(s))
    ELSE JFrac(DecVal(CutBefore(s, ".")))

\* The members of the text of a JSON object written without white space,
\* whose strings hold no comma, quote or backslash: "key":value pairs
\* separated by commas.
MemberTexts(s) == IF Inner(s) = <<>> THEN <<>> ELSE Split(Inner(s), ",")
IsMember(m) ==
    /\ IndexOf(m, ":") # 0
    /\ Enclosed(CutBefore(m, ":"), "\"", "\"")
    /\ IsJsonValue(CutAfter(m, ":"))
IsJsonObject(s) ==
    /\ Enclosed(s, "{", "}")
    /\ \A i \in 1..Len(MemberTexts(s)) : IsMember(MemberTexts(s)[i])

\* The value of the member named key among the member texts ms; null
\* when there is none.
Member(ms, key) ==
    IF \E i \in 1..Len(ms) : Inner(CutBefore(ms[i], ":")) = key
    THEN JsonValue(CutAfter(ms[CHOOSE i \in 1..Len(ms) : Inner(CutBefore(ms[i], ":")) = key], ":"))
    ELSE JNull

\* The string fields of vmessJSON and the two interface{} fields.
VmessStringKeys ==
    {<<"a", "d", "d">>, <<"i", "d">>, <<"n", "e", "t">>, <<"p", "a", "t", "h">>, <<"p", "s">>, <<"s", "c", "y">>, <<"s", "n", "i">>, <<"t", "l", "s">>, <<"t", "y", "p", "e">>, <<"h", "o", "s", "t">>}

\* json.Unmarshal into a vmessJSON succeeds when the text is null, which
\* stores nothing, or an object whose members that go to a string field
\* are strings or null; anything else is an error.
UnmarshalOk(s) ==
    \/ s = <<"n", "u", "l", "l">>
    \/ /\ IsJsonObject(s)
       /\ \A key \in VmessStringKeys : Member(MemberTexts(s), key).t \in {"string", "null"}

\* parser.go lines 211-224: the vmessJSON filled from the member texts ms,
\* or left zero when the text was rejected.
StringField(ok, ms, key) == IF ok THEN Member(ms, key).s ELSE <<>>
AnyField(ok, ms, key) == IF ok THEN Member(ms, key) ELSE JNull
vmessJSON(ok, ms) ==
    [ok |-> ok, Add |-> StringField(ok, ms, <<"a", "d", "d">>), Aid |-> AnyField(ok, ms, <<"a", "i", "d">>),
     ID |-> StringField(ok, ms, <<"i", "d">>), Net |-> StringField(ok, ms, <<"n", "e", "t">>),
     Path |-> StringField(ok, ms, <<"p", "a", "t", "h">>), Port |-> AnyField(ok, ms, <<"p", "o", "r", "t">>),
     PS |-> StringField(ok, ms, <<"p", "s">>), Scy |-> StringField(ok, ms, <<"s", "c", "y">>),
     SNI |-> StringField(ok, ms, <<"s", "n", "i">>), TLS |-> StringField(ok, ms, <<"t", "l", "s">>),
     Host |-> StringField(ok, ms, <<"h", "o", "s", "t">>)]
Unmarshal(s) == vmessJSON(UnmarshalOk(s), IF IsJsonObject(s) THEN MemberTexts(s) ELSE <<>>)

\* parser.go lines 226-272: parseVmess is parseVmessData of the decoded
\* payload, parseVmessJSON of the unmarshalled object, vmessConfig of the
\* object and its two coerced numbers. The error of toInt(v.Aid) is
\* dropped.
vmessConfig(v, port, aid) ==
    IF ~port.ok THEN Fail("vmess port")
    ELSE Parsed([ZeroCfg EXCEPT
             !.Protocol = "vmess",
             !.Name = IF v.PS = <<>> THEN v.Add \o <<":">> \o Itoa(port.n) ELSE v.PS,
             !.UUID = v.ID,
             !.Server = v.Add,
             !.Port = port.n,
             !.Aid = aid.n,
             !.Security = IF v.Scy = <<>> THEN <<"a", "u", "t", "o">> ELSE v.Scy,
             !.Network = v.Net,
             !.TLS = v.TLS,
             !.SNI = v.SNI,
             !.Host = v.Host,
             !.Path = v.Path])
parseVmessJSON(v) ==
    IF ~v.ok THEN Fail("vmess json") ELSE vmessConfig(v, toInt(v.Port), toInt(v.Aid))
parseVmessData(data) ==
    IF ~data.ok THEN Fail("vmess base64 decode") ELSE parseVmessJSON(Unmarshal(data.s))
parseVmess(raw) ==
    parseVmessData(base64DecodeUserinfo(
        CutBefore(SubSeq(raw, Len(<<"v", "m", "e", "s", "s", ":", "/", "/">>) + 1, Len(raw)), "#")))

\* ---------------------------------------------------------------- ParseLine

\* ParseLine without the test for an empty line or a comment.
ParseLineNoCommentTest(line0) ==
    LET line == TrimSpace(line0)
    IN  IF HasPrefix(line, <<"v", "l", "e", "s", "s", ":", "/", "/">>) THEN parseVless(line)
        ELSE IF HasPrefix(line, <<"s", "s", ":", "/", "/">>) THEN parseSS(line)
        ELSE IF HasPrefix(line, <<"v", "m", "e", "s", "s", ":", "/", "/">>) THEN parseVmess(line)
        ELSE IF HasPrefix(line, <<"t", "r", "o", "j", "a", "n", ":", "/", "/">>) THEN parseTrojan(line)
        ELSE Fail("unsupported protocol")

\* parser.go lines 97-115
ParseLine(line0) ==
    LET line == TrimSpace(line0)
    IN  IF line = <<>> \/ HasPrefix(line, <<"#">>) THEN Fail("empty or comment line")
        ELSE IF HasPrefix(line, <<"v", "l", "e", "s", "s", ":", "/", "/">>) THEN parseVless(line)
        ELSE IF HasPrefix(line, <<"s", "s", ":", "/", "/">>) THEN parseSS(line)
        ELSE IF HasPrefix(line, <<"v", "m", "e", "s", "s", ":", "/", "/">>) THEN parseVmess(line)
        ELSE IF HasPrefix(line, <<"t", "r", "o", "j", "a", "n", ":", "/", "/">>) THEN parseTrojan(line)
        ELSE Fail("unsupported protocol")

\* ------------------------------------------- the parser functions applied

\* The plaintexts whose encodings are decoded: of every length modulo 3,
\* with and without a colon, and with characters whose encoding uses the
\* last two letters of the alphabets.
Plaintexts ==
    { <<>>, <<"a">>, <<"m", ":">>, <<">", ">", ">">>, <<"?", "?", "?">>, <<"a", ":", "?", "b">>, <<"m", ":", "p", "w", ">">>, <<"a", "e", "s", ":", "p", "w">>,
      <<"a", ":", "b", ":", "c">>, <<"m", ":", "p", ">", "?", "~">> }

Variants == {"rawurl", "std", "url"}

\* The encoding of a plaintext in one of the three variants.
Encoded(plain, variant) ==
    IF variant = "rawurl" THEN EncodeToString(plain, UrlAlphabet, FALSE)
    ELSE IF variant = "std" THEN EncodeToString(plain, StdAlphabet, TRUE)
    ELSE EncodeToString(plain, UrlAlphabet, TRUE)

\* Texts that are no base64 of any variant, and an encoding whose padding
\* is percent-encoded.
OtherBase64Texts == { <<"Y">>, <<"!", "!", "!", "!">>, <<"Y", "Q", "=">>, <<"Y", "Q", "%", "3", "D", "%", "3", "D">>, <<"Y", "Q", "%", "3">>, <<"Y", "T", "p", "i", "=", "=", "=", "=">> }

Base64Inputs ==
    { [NoInput EXCEPT !.op = "base64DecodeUserinfo", !.s = Encoded(plain, v)] :
          plain \in Plaintexts, v \in Variants }
    \cup { [NoInput EXCEPT !.op = "base64DecodeUserinfo", !.s = t] : t \in OtherBase64Texts }

\* Values of the port and aid fields of a decoded vmess payload.
JsonValues ==
    { JNull, JBool, JArray, JObject, JNum(0), JNum(443), JFrac(443), JNum(8080),
      JStr(<<>>), JStr(<<"4", "4", "3">>), JStr(<<"0">>), JStr(<<"6", "4">>), JStr(<<"+", "7">>), JStr(<<"-", "1">>),
      JStr(<<"4", "4", "x">>), JStr(<<" ", "4", "4", "3">>), JStr(<<"4", ".", "5">>) }

ToIntInputs == { [NoInput EXCEPT !.op = "toInt", !.j = v] : v \in JsonValues }

\* Lines for the dispatch of ParseLine: blank lines, comments, lines of
\* other schemes and of near-miss prefixes, and for each of the four
\* schemes a line that parses and one that does not, some with white
\* space around them.
DispatchLines ==
    { <<>>, <<" ", " ", " ">>, <<"\t">>, <<"#">>, <<"#", " ", "v", "l", "e", "s", "s", ":", "/", "/", "u", "@", "h", ":", "1">>, <<" ", "#", "c">>,
      <<"h", "t", "t", "p", ":", "/", "/", "h", ":", "1">>, <<"s", "o", "c", "k", "s", "5", ":", "/", "/", "u", "@", "h", ":", "1">>, <<"V", "L", "E", "S", "S", ":", "/", "/", "u", "@", "h", ":", "1">>, <<"v", "l", "e", "s", "s", ":", "/", "u", "@", "h", ":", "1">>,
      <<"s", ":", "/", "/", "Y", "T", "p", "i", "@", "h", ":", "1">>, <<"v", "m", "e", "s", ":", "/", "/", "e", "3", "0">>, <<"x", "t", "r", "o", "j", "a", "n", ":", "/", "/", "p", "@", "h", ":", "1">>, <<"v", "l", "e", "s", "s">>,
      <<"v", "l", "e", "s", "s", ":", "/", "/", "u", "@", "h", ":", "1", "#", "n">>, <<" ", " ", "v", "l", "e", "s", "s", ":", "/", "/", "u", "@", "h", ":", "1", "#", "n", " ", " ">>, <<"v", "l", "e", "s", "s", ":", "/", "/", "u", "@", "h", ":", "x">>,
      <<"s", "s", ":", "/", "/", "Y", "T", "p", "i", "@", "h", ":", "1", "#", "n">>, <<" ", "s", "s", ":", "/", "/", "Y", "T", "p", "i", "@", "h", ":", "1">>, <<"s", "s", ":", "/", "/", "!", "@", "h", ":", "1">>, <<"s", "s", ":", "/", "/", "Y", "Q", "@", "h", ":", "1">>,
      <<"v", "m", "e", "s", "s", ":", "/", "/", "e", "y", "J", "h", "Z", "G", "Q", "i", "O", "i", "J", "o", "I", "i", "w", "i", "c", "G", "9", "y", "d", "C", "I", "6", "M", "X", "0">>, <<"v", "m", "e", "s", "s", ":", "/", "/", "e", "3", "0">>, <<"v", "m", "e", "s", "s", ":", "/", "/", "!">>,
      <<"v", "m", "e", "s", "s", ":", "/", "/", "Y", "Q">>, <<"v", "m", "e", "s", "s", ":", "/", "/", "e", "y", "J", "w", "b", "3", "J", "0", "I", "j", "p", "b", "X", "X", "0">>,
      <<"t", "r", "o", "j", "a", "n", ":", "/", "/", "p", "@", "h", ":", "1", "#", "n">>, <<"t", "r", "o", "j", "a", "n", ":", "/", "/", "p", "@", "h", ":", "1", " ">>, <<"t", "r", "o", "j", "a", "n", ":", "/", "/", "p", "@", "h", ":", "%", "z", "z">>, <<"t", "r", "o", "j", "a", "n", ":", "/", "/", "p", "@", "h", ":", "1", "#", "%", "z", "z">> }

\* Shadowsocks lines whose user-info is the encoding of a plaintext, in
\* each of the three variants.
SSLine(plain, v) == <<"s", "s", ":", "/", "/">> \o Encoded(plain, v) \o <<"@", "3", ".", "3", ".", "3", ".", "3", ":", "8", "3", "8", "8", "#", "n">>
SSLines == { SSLine(plain, v) : plain \in Plaintexts, v \in Variants }

\* The JSON text of a value.
JsonText(v) ==
    IF v.t = "null" THEN <<"n", "u", "l", "l">>
    ELSE IF v.t = "bool" THEN <<"t", "r", "u", "e">>
    ELSE IF v.t = "array" THEN <<"[", "]">>
    ELSE IF v.t = "object" THEN <<"{", "}">>
    ELSE IF v.t = "string" THEN <<"\"">> \o v.s \o <<"\"">>
    ELSE Itoa(v.n) \o (IF v.frac THEN <<".", "5">> ELSE <<>>)

\* Vmess lines: the unpadded URL-safe encoding of a payload with the
\* given port and aid members.
VmessPayload(port, aid) ==
    <<"{", "\"", "a", "d", "d", "\"", ":", "\"", "h", "\"", ",", "\"", "p", "o", "r", "t", "\"", ":">> \o JsonText(port) \o <<",", "\"", "a", "i", "d", "\"", ":">> \o JsonText(aid)
        \o <<",", "\"", "i", "d", "\"", ":", "\"", "u", "\"", "}">>
VmessLine(port, aid) ==
    <<"v", "m", "e", "s", "s", ":", "/", "/">> \o EncodeToString(VmessPayload(port, aid), UrlAlphabet, FALSE)

\* Every value as the port beside a numeric aid, and every value as the
\* aid beside a numeric port.
VmessPairs ==
    { <<v, JNum(0)>> : v \in JsonValues } \cup { <<JNum(443), v>> : v \in JsonValues }
VmessLines == { VmessLine(pa[1], pa[2]) : pa \in VmessPairs }

\* Percent-encoding of a URI component: every character that is not
\* unreserved becomes %XX.
RECURSIVE EscapeComponent(_)
EscapeComponent(s) ==
    IF s = <<>> THEN <<>>
    ELSE (IF IsUnreserved(s[1]) THEN <<s[1]>>
          ELSE <<"%", HexDigits[(Ord(s[1]) \div 16) + 1], HexDigits[(Ord(s[1]) % 16) + 1]>>)
             \o EscapeComponent(Tail(s))

\* The query of a generated URI: key=value for every field that is set.
RECURSIVE QueryOf(_)
QueryOf(pairs) ==
    IF pairs = <<>> THEN <<>>
    ELSE LET rest == QueryOf(Tail(pairs))
             this == Head(pairs)[1] \o <<"=">> \o EscapeComponent(Head(pairs)[2])
         IN  IF Head(pairs)[2] = <<>> THEN rest
             ELSE IF rest = <<>> THEN this
             ELSE this \o <<"&">> \o rest

\* scheme://identity@host:port?query#name, each part percent-encoded.
UriOf(scheme, identity, g, pairs) ==
    scheme \o EscapeComponent(identity) \o <<"@">> \o g.Server \o <<":">> \o Itoa(g.Port)
        \o (IF QueryOf(pairs) = <<>> THEN <<>> ELSE <<"?">> \o QueryOf(pairs))
        \o <<"#">> \o EscapeComponent(g.Name)

\* The URI generated from the field values g of a configuration.
Generate(g) ==
    IF g.Protocol = "vless"
    THEN UriOf(<<"v", "l", "e", "s", "s", ":", "/", "/">>, g.UUID, g,
               << <<<<"s", "e", "c", "u", "r", "i", "t", "y">>, g.Security>>, <<<<"t", "y", "p", "e">>, g.Type>>, <<<<"s", "n", "i">>, g.SNI>>,
                  <<<<"h", "o", "s", "t">>, g.Host>>, <<<<"p", "a", "t", "h">>, g.Path>>, <<<<"f", "p">>, g.Fp>>,
                  <<<<"e", "n", "c", "r", "y", "p", "t", "i", "o", "n">>, g.Encryption>>, <<<<"f", "l", "o", "w">>, g.Flow>>,
                  <<<<"p", "b", "k">>, g.PublicKey>>, <<<<"s", "i", "d">>, g.ShortID>> >>)
    ELSE IF g.Protocol = "trojan"
    THEN UriOf(<<"t", "r", "o", "j", "a", "n", ":", "/", "/">>, g.Password, g,
               << <<<<"s", "e", "c", "u", "r", "i", "t", "y">>, g.Security>>, <<<<"t", "y", "p", "e">>, g.Type>>, <<<<"s", "n", "i">>, g.SNI>>,
                  <<<<"h", "o", "s", "t">>, g.Host>>, <<<<"p", "a", "t", "h">>, g.Path>>, <<<<"f", "p">>, g.Fp>> >>)
    ELSE IF g.Protocol = "shadowsocks"
    THEN <<"s", "s", ":", "/", "/">> \o EncodeToString(g.Method \o <<":">> \o g.Password, UrlAlphabet, FALSE)
             \o <<"@">> \o g.Server \o <<":">> \o Itoa(g.Port) \o <<"#">> \o EscapeComponent(g.Name)
    ELSE <<"v", "m", "e", "s", "s", ":", "/", "/">> \o EncodeToString(
             <<"{", "\"", "a", "d", "d", "\"", ":">> \o JsonText(JStr(g.Server)) \o <<",", "\"", "a", "i", "d", "\"", ":">> \o JsonText(JNum(g.Aid))
                 \o <<",", "\"", "i", "d", "\"", ":">> \o JsonText(JStr(g.UUID)) \o <<",", "\"", "n", "e", "t", "\"", ":">> \o JsonText(JStr(g.Network))
                 \o <<",", "\"", "p", "a", "t", "h", "\"", ":">> \o JsonText(JStr(g.Path)) \o <<",", "\"", "p", "o", "r", "t", "\"", ":">> \o JsonText(JNum(g.Port))
                 \o <<",", "\"", "p", "s", "\"", ":">> \o JsonText(JStr(g.Name)) \o <<",", "\"", "s", "c", "y", "\"", ":">> \o JsonText(JStr(g.Security))
                 \o <<",", "\"", "s", "n", "i", "\"", ":">> \o JsonText(JStr(g.SNI)) \o <<",", "\"", "t", "l", "s", "\"", ":">> \o JsonText(JStr(g.TLS))
                 \o <<",", "\"", "h", "o", "s", "t", "\"", ":">> \o JsonText(JStr(g.Host)) \o <<"}">>,
             UrlAlphabet, FALSE)

\* Display names: plain, with a space, with '+', with '%'.
Names == { <<"n">>, <<"M", "y", " ", "S", "e", "r", "v", "e", "r">>, <<"a", "+", "b">>, <<"1", "0", "0", "%">>, <<"%", "4", "1">>, <<"C", "+", "+", " ", "5", "0", "%">> }

\* Field values of one configuration of each scheme, but for the name.
GenBases ==
    { [ZeroCfg EXCEPT !.Protocol = "vless", !.UUID = <<"u", "u", "i", "d", "-", "1">>, !.Server = <<"1", ".", "2", ".", "3", ".", "4">>,
                      !.Port = 443, !.Security = <<"r", "e", "a", "l", "i", "t", "y">>, !.Type = <<"t", "c", "p">>,
                      !.SNI = <<"a", ".", "b">>, !.Fp = <<"c", "h", "r", "o", "m", "e">>, !.Encryption = <<"n", "o", "n", "e">>,
                      !.Flow = <<"x", "t", "l", "s", "-", "r", "p", "r", "x", "-", "v", "i", "s", "i", "o", "n">>, !.PublicKey = <<"K", "_", "-", "1">>, !.ShortID = <<"6", "b">>],
      [ZeroCfg EXCEPT !.Protocol = "trojan", !.Password = <<"p", "@", "s", "s", ":", "w", "/", "d">>, !.Server = <<"t", ".", "e", "x", "a", "m", "p", "l", "e">>,
                      !.Port = 8443, !.Security = <<"t", "l", "s">>, !.Type = <<"w", "s">>, !.SNI = <<"t", ".", "e", "x", "a", "m", "p", "l", "e">>,
                      !.Host = <<"h", ".", "e", "x", "a", "m", "p", "l", "e">>, !.Path = <<"/", "w", "s", "?", "x", "=", "1">>, !.Fp = <<"f", "i", "r", "e", "f", "o", "x">>],
      [ZeroCfg EXCEPT !.Protocol = "shadowsocks", !.Method = <<"a", "e", "s", "-", "2", "5", "6", "-", "g", "c", "m">>,
                      !.Password = <<"p", "w", ":", "1">>, !.Server = <<"3", ".", "3", ".", "3", ".", "3">>, !.Port = 8388],
      [ZeroCfg EXCEPT !.Protocol = "vmess", !.UUID = <<"u", "u", "i", "d", "-", "2">>, !.Server = <<"4", ".", "4", ".", "4", ".", "4">>,
                      !.Port = 2053, !.Aid = 2, !.Security = <<"a", "e", "s", "-", "1", "2", "8", "-", "g", "c", "m">>, !.Network = <<"w", "s">>,
                      !.TLS = <<"t", "l", "s">>, !.SNI = <<"v", ".", "e", "x", "a", "m", "p", "l", "e">>, !.Host = <<"v", ".", "e", "x", "a", "m", "p", "l", "e">>,
                      !.Path = <<"/", "v">>] }

GenConfigs == { [g EXCEPT !.Name = name] : g \in GenBases, name \in Names }
GeneratedLines == { Generate(g) : g \in GenConfigs }

ParsedLines == DispatchLines \cup SSLines \cup VmessLines \cup GeneratedLines

LineInputs == { [NoInput EXCEPT !.op = "ParseLine", !.s = l] : l \in ParsedLines }

ParseInputs == Base64Inputs \cup ToIntInputs \cup LineInputs

ParseInit ==
    /\ pin \in ParseInputs
    /\ pout = NoOutput
    /\ workers = 0
    /\ onResultNil = TRUE
    /\ CheckAllNotCalled
    /\ NoMain

\* What each application leaves in pout.
Base64Output(dec) ==
    [NoOutput EXCEPT !.done = TRUE,
                     !.err = IF dec.ok THEN "" ELSE "base64 decode failed",
                     !.s = dec.s]
ToIntOutput(j, res) ==
    [NoOutput EXCEPT !.done = TRUE,
                     !.err = IF res.ok THEN ""
                             ELSE IF j.t = "string" THEN "strconv.Atoi"
                             ELSE "unexpected type",
                     !.n = res.n]
ParseLineOutput(res) == [NoOutput EXCEPT !.done = TRUE, !.err = res.err, !.cfg = res.cfg]

\* base64DecodeUserinfo(pin.s)
ApplyBase64 ==
    /\ pin.op = "base64DecodeUserinfo"
    /\ ~pout.done
    /\ pout' = Base64Output(base64DecodeUserinfo(pin.s))
    /\ UNCHANGED <<checkAllVars, readVars, aliveEntries, served, pin>>

\* toInt(pin.j)
ApplyToInt ==
    /\ pin.op = "toInt"
    /\ ~pout.done
    /\ pout' = ToIntOutput(pin.j, toInt(pin.j))
    /\ UNCHANGED <<checkAllVars, readVars, aliveEntries, served, pin>>

\* ParseLine(pin.s)
ApplyParseLine ==
    /\ pin.op = "ParseLine"
    /\ ~pout.done
    /\ pout' = ParseLineOutput(ParseLine(pin.s))
    /\ UNCHANGED <<checkAllVars, readVars, aliveEntries, served, pin>>

ParseNext ==
    \/ ApplyBase64
    \/ ApplyToInt
    \/ ApplyParseLine

ParseSpec == ParseInit /\ [][ParseNext]_vars

\* C17: the decoder applied to the encoding of a plaintext in any of the
\* three variants (unpadded URL-safe, padded standard, padded URL-safe)
\* succeeds and returns that plaintext.
C17_DecodesEveryVariant ==
    \A plain \in Plaintexts, v \in Variants :
        (pin.op = "base64DecodeUserinfo" /\ pin.s = Encoded(plain, v) /\ pout.done) =>
            (pout.err = "" /\ pout.s = plain)

\* The four schemes: the literal prefix, the protocol tag of the
\* configuration its parser returns, and the errors its parser returns.
Schemes ==
    { [prefix |-> <<"v", "l", "e", "s", "s", ":", "/", "/">>, tag |-> "vless",
       errors |-> {"vless parse error", "invalid port"}],
      [prefix |-> <<"s", "s", ":", "/", "/">>, tag |-> "shadowsocks",
       errors |-> {"ss parse error", "invalid port", "ss userinfo decode error",
                   "ss userinfo format invalid"}],
      [prefix |-> <<"v", "m", "e", "s", "s", ":", "/", "/">>, tag |-> "vmess",
       errors |-> {"vmess base64 decode", "vmess json", "vmess port"}],
      [prefix |-> <<"t", "r", "o", "j", "a", "n", ":", "/", "/">>, tag |-> "trojan",
       errors |-> {"trojan parse error", "invalid port"}] }

\* The schemes whose prefix the line begins with.
Matching(line) == {sc \in Schemes : HasPrefix(line, sc.prefix)}

\* C14: ParseLine looks at the trimmed line. A blank line or one that
\* begins with '#' fails with the empty-or-comment error; a line that
\* begins with none of the four scheme prefixes fails with the
\* unsupported-protocol error; any other line begins with exactly one
\* prefix and the result is that of this scheme's parser: one of its
\* errors, or a configuration with this scheme's protocol tag.
C14_Dispatch ==
    (pin.op = "ParseLine" /\ pout.done) =>
        LET line == TrimSpace(pin.s)
        IN  IF line = <<>> \/ line[1] = "#"
            THEN pout.err = "empty or comment line"
            ELSE IF Matching(line) = {}
            THEN pout.err = "unsupported protocol"
            ELSE /\ Cardinality(Matching(line)) = 1
                 /\ \A sc \in Matching(line) :
                      /\ pout.err \in sc.errors \cup {""}
                      /\ pout.err = "" => pout.cfg.Protocol = sc.tag
                      /\ pout.err # "" => pout.cfg = ZeroCfg

\* A shadowsocks line was parsed into a configuration with the tag
\* "shadowsocks".
C14_Witness ==
    /\ pin.op = "ParseLine"
    /\ pout.done
    /\ HasPrefix(pin.s, <<"s", "s", ":", "/", "/">>)
    /\ pout.err = ""
    /\ pout.cfg.Protocol = "shadowsocks"

\* What parseSS decodes from the user-info of a line, and whether the
\* parse of the line got as far as splitting it.
SSDecoded(line) == base64DecodeUserinfo(UserString(UrlParse(TrimSpace(line)))).s
SSAtSplit ==
    /\ pin.op = "ParseLine"
    /\ pout.done
    /\ HasPrefix(TrimSpace(pin.s), <<"s", "s", ":", "/", "/">>)
    /\ pout.err \notin {"ss parse error", "invalid port", "ss userinfo decode error"}

\* The number of colon-separated fields of a text.
Fields(s) == Len(Split(s, ":"))

Coerces(v) ==
    \/ v.t \in {"number", "null"}
    \/ v.t = "string" /\ (v.s = <<>> \/ IsInteger(v.s))
IntOf(v) ==
    IF v.t = "number" THEN v.n
    ELSE IF v.t = "string" /\ v.s # <<>> THEN DecVal(v.s)
    ELSE 0
OtherType(v) == v.t \in {"bool", "array", "object"}

\* The vmess line of the given port and aid was parsed.
VmessParsed(port, aid) ==
    /\ pin.op = "ParseLine"
    /\ pin.s = VmessLine(port, aid)
    /\ pout.done

C18_RoundTrip ==
    \A g \in GenConfigs :
        (pin.op = "ParseLine" /\ pin.s = Generate(g) /\ pout.done) =>
            (pout.err = "" /\ pout.cfg = g)

\* --------------------------------------------------- main: readConfigs

\* The lines of an input file: blank, comment, of an unsupported scheme,
\* malformed, and two that parse (one of them with white space around it).
ReadLines ==
    { <<>>, <<"#", " ", "s", "e", "r", "v", "e", "r", "s">>, <<"h", "t", "t", "p", ":", "/", "/", "h", ":", "1">>, <<"v", "l", "e", "s", "s", ":", "/", "/", "u", "@", "h", ":", "x">>, <<"v", "l", "e", "s", "s", ":", "/", "/", "u", "@", "h", ":", "1", "#", "a">>,
      <<" ", " ", "t", "r", "o", "j", "a", "n", ":", "/", "/", "p", "@", "h", ":", "2", "#", "b", " ">> }

InputFiles == UNION { [1..n -> ReadLines] : n \in 0..MaxLines }

\* main.go line 46: main calls readConfigs; CheckAll is not called yet.
\* The worker count is the default of the -w flag.
ReadInit ==
    /\ lines \in InputFiles
    /\ scanned = 0
    /\ entries = <<>>
    /\ progPc = "read"
    /\ aliveEntries = <<>>
    /\ served = FALSE
    /\ workers = 1
    /\ onResultNil = FALSE
    /\ CheckAllNotCalled
    /\ ParserIdle

\* main.go lines 164-168: the entry a line adds, none when it does not
\* parse.
ScannedEntry(line, res) ==
    IF res.err = "" THEN <<[RawURI |-> line, Config |-> res.cfg]>> ELSE <<>>

\* One iteration of the scanner loop that gives up at the first line that
\* does not parse.
ScanLineAbortOnError ==
    /\ progPc = "read"
    /\ scanned < Len(lines)
    /\ entries' = IF ParseLine(lines[scanned + 1]).err = ""
                  THEN entries \o ScannedEntry(lines[scanned + 1], ParseLine(lines[scanned + 1]))
                  ELSE <<>>
    /\ scanned' = IF ParseLine(lines[scanned + 1]).err = "" THEN scanned + 1 ELSE Len(lines)
    /\ UNCHANGED <<checkAllVars, lines, progPc, aliveEntries, served, parseVars>>

\* main.go lines 162-169: one iteration of the scanner loop.
ScanLine ==
    /\ progPc = "read"
    /\ scanned < Len(lines)
    /\ entries' = entries \o ScannedEntry(lines[scanned + 1], ParseLine(lines[scanned + 1]))
    /\ scanned' = scanned + 1
    /\ UNCHANGED <<checkAllVars, lines, progPc, aliveEntries, served, parseVars>>

\* main.go lines 170 and 51-54: readConfigs returns no entry and main
\* exits with "no valid configs found".
MainNoConfigs ==
    /\ progPc = "read"
    /\ scanned = Len(lines)
    /\ entries = <<>>
    /\ progPc' = "fatal"
    /\ UNCHANGED <<checkAllVars, lines, scanned, entries, aliveEntries, served, parseVars>>

\* main.go lines 170, 56-60 and 112: readConfigs returns the entries, main
\* copies their configurations into configs and calls CheckAll, which
\* sets up its locals (CheckAll lines 132-140).
MainCallCheckAll ==
    /\ progPc = "read"
    /\ scanned = Len(lines)
    /\ entries # <<>>
    /\ progPc' = "checkAll"
    /\ configs' = [i \in 1..Len(entries) |-> entries[i].Config]
    /\ mainPc' = IF 0 < workers THEN "spawn" ELSE "send"
    /\ results' = [i \in 1..Len(entries) |-> ZeroResult]
    /\ engine' = [c \in 1..Len(entries) |-> "none"]
    /\ called' = [c \in 1..Len(entries) |-> 0]
    /\ taken' = [c \in 1..Len(entries) |-> 0]
    /\ written' = [c \in 1..Len(entries) |-> 0]
    /\ UNCHANGED <<workers, onResultNil, spawned, sent, closed, retval, jobs, wg,
                   wpc, widx, r, socksPort, peer, trace, bound, mu, done, ncalls,
                   lines, scanned, aliveEntries, served, entries, parseVars>>

ReadNext ==
    \/ ScanLine
    \/ MainNoConfigs
    \/ MainCallCheckAll

ReadSpec == ReadInit /\ [][ReadNext]_vars

\* The positions among the first k lines of the lines that parse.
Good(k) == {i \in 1..k : ParseLine(lines[i]).err = ""}

\* C13: while the input is read, the entries are the lines read so far
\* that parse, in input order, each with its own raw line and its parsed
\* configuration; a line that does not parse adds nothing and ends
\* nothing. The program exits with the fatal error only after the whole
\* input was read and no line parsed, and then CheckAll is never called;
\* otherwise CheckAll is entered with exactly the configurations of the
\* entries, in order.
C13_SkipsUnparsed ==
    /\ [](/\ Len(entries) = Cardinality(Good(scanned))
          /\ \A j \in 1..Len(entries) :
               \E i \in Good(scanned) :
                  /\ Cardinality(Good(i)) = j
                  /\ entries[j].RawURI = lines[i]
                  /\ entries[j].Config = ParseLine(lines[i]).cfg
          /\ progPc = "fatal" =>
               /\ scanned = Len(lines)
               /\ Good(Len(lines)) = {}
               /\ mainPc = "notCalled"
          /\ progPc = "checkAll" =>
               /\ scanned = Len(lines)
               /\ Good(Len(lines)) # {}
               /\ configs = [j \in 1..Len(entries) |-> entries[j].Config]
               /\ InitState
          /\ progPc = "read" => mainPc = "notCalled")
    /\ [][progPc = "fatal" => progPc' = "fatal" /\ mainPc' = "notCalled"]_vars

\* CheckAll was entered with two configurations, read from a file of three
\* lines whose second line does not parse.
C13_Witness ==
    /\ progPc = "checkAll"
    /\ Len(lines) = 3
    /\ ParseLine(lines[2]).err # ""
    /\ Len(configs) = 2
    /\ entries[1].RawURI = lines[1]
    /\ entries[2].RawURI = lines[3]
    /\ lines[1] # lines[3]

====
